---------------------------- MODULE Spec2Model ----------------------------
(***************************************************************************)
(* Road-roughness monitoring server: the Teltonika TCP session             *)
(* (services/tcp-server.js), the Codec8 frame codec (parsers/codec8.js),   *)
(* the ingestion service (services/telemetry-ingestion.js) and the device  *)
(* validator (services/device-validator.js).                               *)
(*                                                                         *)
(* Bytes are the integers 0..255 and buffers are sequences of bytes, so    *)
(* framing and decoding read their fields from the wire exactly as the     *)
(* code does.  The Node event loop is modelled by `running`: a handler     *)
(* runs without interruption from one await that really suspends to the    *)
(* next, and socket events and resumptions of suspended handlers happen    *)
(* only while no handler runs.                                             *)
(***************************************************************************)
EXTENDS Integers, Sequences, FiniteSets, TLC

VARIABLES
    scn,            \* which scenario (the devices' byte streams) this run plays
    sent,           \* [conn -> number of bytes of its stream already delivered]
    chunks,         \* [conn -> number of 'data' events delivered]
    buffer,         \* [conn -> the closure variable `buffer` of the connection]
    expectingIMEI,  \* [conn -> the closure variable `expectingIMEI`]
    imei,           \* [conn -> the closure variable `imei` (NoImei or an ASCII string)]
    sessions,       \* the module-level Map `sessions` (socket -> imei)
    running,        \* connection whose data handler is executing, or 0
    tasks,          \* data handlers suspended inside `await processTelemetryPacket`
    deviceCache,    \* device-validator's Map imei -> {truck, expiresAt}
    now,            \* Date.now()
    telemetry,      \* rows of the TruckTelemetry table, in insertion order
    repoErrors,     \* number of repository calls that have failed so far
    written,        \* [conn -> sequence of the buffers passed to socket.write]
    handed,         \* [conn -> sequence of the packets passed to processTelemetryPacket]
    input,          \* codec specification: the buffer given to Codec8Parser.parse
    result,         \* codec specification: <<>>, then <<what parse returned for `input`>>
    det,            \* [instance -> a call of detectRoughnessEvents: its position and locals]
    events,         \* rows of the RoughnessEvent table, in insertion order
    agg,            \* the call of aggregateDailyStats: its position and locals
    stats,          \* rows of the RoadSegmentStats table, in insertion order
    segmentCache,   \* the Map of segment-assignment.js: its entries in insertion order
    ingests         \* [instance -> a call of processTelemetryPacket: its position and locals]

sessVars  == <<scn, sent, chunks, buffer, expectingIMEI, imei, sessions, running,
               tasks, deviceCache, now, telemetry, repoErrors, written, handed>>
codecVars == <<input, result>>
aggVars   == <<agg, stats>>
segVars   == <<segmentCache, ingests>>
jobVars   == <<det, events, aggVars, segVars>>
vars      == <<sessVars, codecVars, jobVars>>

\* `imei` before the handshake (null), and findUnique finding no truck (null).
NoImei  == <<-1>>
NoTruck == [id |-> 0, imei |-> <<>>, truckId |-> "", status |-> ""]

(***************************************************************************)
(* Reading integers from a buffer.  TLC's integers are 32 bits wide, so a  *)
(* value of 2^30 or more is represented by OutOfRange; every value below   *)
(* is exact.  No buffer of the model is that long, so comparisons of a     *)
(* length field with a buffer length are decided as in the code.           *)
(***************************************************************************)
OutOfRange == 2^30

\* The(S) is the element of a singleton S.  { e(x) : x \in {v} } makes TLC
\* compute v once before e, where LET would compute it again at every use.
The(S) == CHOOSE v \in S : TRUE

RECURSIVE ReadUIntAcc(_, _, _, _)
ReadUIntAcc(b, off, n, acc) ==
    IF n = 0 THEN acc
    ELSE IF acc >= 2^22 THEN OutOfRange
    ELSE ReadUIntAcc(b, off + 1, n - 1, acc * 256 + b[off + 1])

\* DataView.getUint8/16/32 and Number(getBigUint64) at byte offset `off`.
ReadUInt(b, off, n) == ReadUIntAcc(b, off, n, 0)

\* DataView.getInt16/getInt32 (two's complement).
ReadInt(b, off, n) ==
    IF b[off + 1] < 128 THEN ReadUInt(b, off, n)
    ELSE LET inv == [i \in 1..n |-> 255 - b[off + i]]
             m   == ReadUInt(inv, 0, n)
         IN  IF m = OutOfRange THEN -OutOfRange ELSE -(m + 1)

\* A DataView read of n bytes at `off` throws RangeError past the end.
InView(b, off, n) == off + n <= Len(b)

\* Buffer.slice(from) and Buffer.slice(0, to): both clamp to the buffer.
SliceFrom(b, from) == SubSeq(b, from + 1, Len(b))
SliceTo(b, to)     == SubSeq(b, 1, IF to < Len(b) THEN to ELSE Len(b))

\* Buffer.writeUInt32BE(v) on a fresh 4-byte buffer.
UInt32BE(v) == <<(v \div 16777216) % 256, (v \div 65536) % 256,
                 (v \div 256) % 256, v % 256>>

(***************************************************************************)
(* parsers/codec8.js                                                       *)
(***************************************************************************)
RECURSIVE Xor(_, _)
Xor(a, b) ==
    IF a = 0 THEN b
    ELSE IF b = 0 THEN a
    ELSE ((a + b) % 2) + 2 * Xor(a \div 2, b \div 2)

RECURSIVE CrcBits(_, _)
CrcBits(crc, j) ==
    IF j = 0 THEN crc
    ELSE The({ CrcBits(c, j - 1) :
               c \in {IF crc % 2 = 1 THEN Xor(crc \div 2, 40961) ELSE crc \div 2} })

\* The byte loop over b[lo..hi], first to last, starting from crc (split
\* in halves to keep the evaluation shallow).
RECURSIVE CrcBytes(_, _, _, _)
CrcBytes(b, lo, hi, crc) ==
    IF lo > hi THEN crc
    ELSE IF lo = hi THEN CrcBits(Xor(crc, b[lo]), 8)
    ELSE The({ CrcBytes(b, ((lo + hi) \div 2) + 1, hi, c) :
               c \in {CrcBytes(b, lo, (lo + hi) \div 2, crc)} })

\* The CRC-16 (polynomial 0xA001, init 0) that validateCRC computes.
Crc16(b) == CrcBytes(b, 1, Len(b), 0)

\* validateCRC(buffer, expectedCRC)
validateCRC(b, expectedCRC) == Crc16(b) = expectedCRC

\* parseIoGroup's inner loop: `count` {id, value} pairs of one width.
RECURSIVE ParseIoItems(_, _, _, _, _, _)
ParseIoItems(b, off, ext, width, count, acc) ==
    LET idw == IF ext THEN 2 ELSE 1 IN
    IF count = 0 THEN [ok |-> TRUE, off |-> off, io |-> acc]
    ELSE IF ~InView(b, off, idw + width) THEN [ok |-> FALSE, off |-> off, io |-> acc]
    ELSE ParseIoItems(b, off + idw + width, ext, width, count - 1,
             Append(acc, [id       |-> ReadUInt(b, off, idw),
                          value    |-> ReadUInt(b, off + idw, width),
                          byteSize |-> width]))

\* parseIoGroup(bytesPerValue): a count, then that many pairs.
parseIoGroup(b, off, ext, width, acc) ==
    LET cw == IF ext THEN 2 ELSE 1 IN
    IF ~InView(b, off, cw) THEN [ok |-> FALSE, off |-> off, io |-> acc]
    ELSE ParseIoItems(b, off + cw, ext, width, ReadUInt(b, off, cw), acc)

\* The four groups of one record, of widths 1, 2, 4 and 8, in that order.
ParseIoGroups(b, off, ext) ==
    The({ The({ The({ IF g4.ok THEN parseIoGroup(b, g4.off, ext, 8, g4.io) ELSE g4 :
        g4 \in {IF g2.ok THEN parseIoGroup(b, g2.off, ext, 4, g2.io) ELSE g2} }) :
        g2 \in {IF g1.ok THEN parseIoGroup(b, g1.off, ext, 2, g1.io) ELSE g1} }) :
        g1 \in {parseIoGroup(b, off, ext, 1, <<>>)} })

\* One pass of the record loop: timestamp, priority, GPS element, IO element.
\* longitude and latitude are kept in the wire's unit of 1e-7 degree (the
\* code divides by 10000000 into a double); the timestamp is the Date's
\* milliseconds.
ParseRecord(b, off, ext) ==
    LET hw  == IF ext THEN 2 ELSE 1
        io0 == off + 8 + 1 + 15 + hw + hw
    IN  IF ~InView(b, off, 8 + 1 + 15 + hw + hw)
        THEN [ok |-> FALSE, off |-> off, rec |-> <<>>]
        ELSE The({
             [ok  |-> g.ok,
              off |-> g.off,
              rec |-> [timestamp |-> ReadUInt(b, off, 8),
                       priority  |-> ReadUInt(b, off + 8, 1),
                       gps |-> [longitude  |-> ReadInt(b, off + 9, 4),
                                latitude   |-> ReadInt(b, off + 13, 4),
                                altitude   |-> ReadInt(b, off + 17, 2),
                                angle      |-> ReadUInt(b, off + 19, 2),
                                satellites |-> ReadUInt(b, off + 21, 1),
                                speed      |-> ReadUInt(b, off + 22, 2)],
                       eventIoId |-> ReadUInt(b, off + 24, hw),
                       io        |-> g.io]] : g \in {ParseIoGroups(b, io0, ext)} })

RECURSIVE ParseRecords(_, _, _, _, _)
ParseRecords(b, off, ext, count, acc) ==
    IF count = 0 THEN [ok |-> TRUE, off |-> off, records |-> acc]
    ELSE The({ IF ~r.ok THEN [ok |-> FALSE, off |-> r.off, records |-> acc]
               ELSE ParseRecords(b, r.off, ext, count - 1, Append(acc, r.rec)) :
               r \in {ParseRecord(b, off, ext)} })

\* A parse that ends at recordCount2, without the read of the CRC.
parseWithoutCrcRead(b) ==
    IF ~InView(b, 0, 9) THEN [ok |-> FALSE, error |-> "RangeError"]
    ELSE LET codecId == ReadUInt(b, 8, 1) IN
    IF codecId # 8 /\ codecId # 142 THEN [ok |-> FALSE, error |-> "Unsupported Codec ID"]
    ELSE IF ~InView(b, 9, 1) THEN [ok |-> FALSE, error |-> "RangeError"]
    ELSE LET recordCount == ReadUInt(b, 9, 1) IN
         The({ IF ~rs.ok \/ ~InView(b, rs.off, 1)
               THEN [ok |-> FALSE, error |-> "RangeError"]
               ELSE [ok |-> TRUE, codecId |-> codecId,
                     recordCount |-> recordCount, records |-> rs.records] :
               rs \in {ParseRecords(b, 10, codecId = 142, recordCount, <<>>)} })

\* Codec8Parser.parse(buffer): ok = FALSE stands for a thrown error.
parse(b) ==
    IF ~InView(b, 0, 9) THEN [ok |-> FALSE, error |-> "RangeError"]
    ELSE LET codecId == ReadUInt(b, 8, 1) IN
    IF codecId # 8 /\ codecId # 142 THEN [ok |-> FALSE, error |-> "Unsupported Codec ID"]
    ELSE IF ~InView(b, 9, 1) THEN [ok |-> FALSE, error |-> "RangeError"]
    ELSE LET recordCount == ReadUInt(b, 9, 1) IN
         The({ IF ~rs.ok \/ ~InView(b, rs.off, 1) \/ ~InView(b, rs.off + 1, 4)
               THEN [ok |-> FALSE, error |-> "RangeError"]
               ELSE [ok |-> TRUE, codecId |-> codecId,
                     recordCount |-> recordCount, records |-> rs.records] :
               rs \in {ParseRecords(b, 10, codecId = 142, recordCount, <<>>)} })

\* `offset` when the record loop has ended, for a buffer parse decodes.
TrailerOffset(b) == ParseRecords(b, 10, ReadUInt(b, 8, 1) = 142, ReadUInt(b, 9, 1), <<>>).off

\* The locals recordCount2 and receivedCrc that parse reads from the trailer.
recordCount2Of(b) == ReadUInt(b, TrailerOffset(b), 1)
receivedCrcOf(b)  == ReadUInt(b, TrailerOffset(b) + 1, 4)

(***************************************************************************)
(* parsers/avl-mapper.js                                                   *)
(***************************************************************************)
AVL_ID_MAP ==
    (1 :> "din1") @@ (2 :> "din2") @@ (3 :> "din3") @@ (9 :> "ain1") @@
    (6 :> "ain2") @@ (66 :> "externalVoltage") @@ (67 :> "batteryVoltage") @@
    (68 :> "batteryCurrent") @@ (21 :> "gsmSignal") @@ (16 :> "totalOdometer") @@
    (17 :> "axisX") @@ (18 :> "axisY") @@ (19 :> "axisZ") @@
    (239 :> "ignition") @@ (240 :> "movement") @@ (200 :> "sleepMode")

\* mapAVLToFields(ioElements): a later element overwrites an earlier one of
\* the same name; ids outside AVL_ID_MAP are kept under `unknown`.
RECURSIVE MapIo(_, _, _)
MapIo(io, i, mapped) ==
    IF i > Len(io) THEN mapped
    ELSE LET e == io[i]
             unk == IF "unknown" \in DOMAIN mapped THEN mapped["unknown"] ELSE <<>>
         IN  The({ MapIo(io, i + 1, m) :
                   m \in {IF e.id \in DOMAIN AVL_ID_MAP
                          THEN (AVL_ID_MAP[e.id] :> e.value) @@ mapped
                          ELSE ("unknown" :> ((e.id :> e.value) @@ unk)) @@ mapped} })

\* A mapping that keeps the elements of AVL_ID_MAP only.
mapKnownFields(ioElements) ==
    LET Known(e) == e.id \in DOMAIN AVL_ID_MAP
    IN  MapIo(SelectSeq(ioElements, Known), 1, <<>>)

mapAVLToFields(ioElements) == MapIo(ioElements, 1, <<>>)

\* `mapped.f || 0` and `Boolean(mapped.f)` on a mapped-IO object.
OrZero(mapped, f) == IF f \in DOMAIN mapped THEN mapped[f] ELSE 0
Truthy(mapped, f) == f \in DOMAIN mapped /\ mapped[f] # 0

(***************************************************************************)
(* The devices and the administrative store (the environment).             *)
(***************************************************************************)
\* Big-endian encoding of v in n bytes, as a device writes its fields.
RECURSIVE BytesOf(_, _)
BytesOf(v, n) == IF n = 0 THEN <<>> ELSE Append(BytesOf(v \div 256, n - 1), v % 256)

Zeros(n) == [i \in 1..n |-> 0]

\* One Codec8 AVL record with timestamp ts, a zero GPS element and no IO.
RecordBytes(ts) == BytesOf(ts, 8) \o <<0>> \o Zeros(15) \o <<0, 0>> \o Zeros(4)

\* One Codec8 AVL record carrying axisZ (id 19) in the 2-byte group.
RecordBytesZ(ts, z) ==
    BytesOf(ts, 8) \o <<1>> \o Zeros(15) \o <<19, 1>> \o <<0, 1, 19>> \o BytesOf(z, 2) \o <<0, 0>>

\* One Codec8-Extended record with one 1-byte IO element (id 239 = ignition).
RecordBytesExt(ts) ==
    BytesOf(ts, 8) \o <<0>> \o Zeros(15) \o <<0, 239, 0, 1>>
        \o <<0, 1, 0, 239, 1>> \o Zeros(6)

\* One Codec8-Extended record with no element in the four fixed-width groups
\* and one element in the fifth, variable-width group: count, then id,
\* length and `value`.
RecordBytesExtNX(ts, value) ==
    BytesOf(ts, 8) \o <<0>> \o Zeros(15) \o <<0, 0, 0, 1>>
        \o Zeros(8) \o <<0, 1>> \o <<1, 129>> \o BytesOf(Len(value), 2) \o value

DataPart(codecId, count1, recs, count2) == <<codecId, count1>> \o recs \o <<count2>>

PacketOf(data, crc) == Zeros(4) \o BytesOf(Len(data), 4) \o data \o BytesOf(crc, 4)

\* A packet whose trailer carries the CRC-16 of its data part.
GoodPacket(data) == PacketOf(data, Crc16(data))

Handshake(id) == BytesOf(Len(id), 2) \o id

\* The Truck table: one registered device, announcing the identifier "1".
Trucks == { [id |-> 1, imei |-> <<49>>, truckId |-> "T-1", status |-> "ACTIVE"] }

RegisteredId   == <<49>>
UnregisteredId == <<57>>

PktA    == GoodPacket(DataPart(8, 1, RecordBytes(1), 1))     \* one record, t = 1
PktB    == GoodPacket(DataPart(8, 1, RecordBytes(2), 1))     \* one record, t = 2
PktAB   == GoodPacket(DataPart(8, 2, RecordBytes(1) \o RecordBytes(2), 2))
PktNone == GoodPacket(DataPart(8, 0, <<>>, 0))               \* no record
PktCodec == GoodPacket(DataPart(7, 0, <<>>, 0))              \* codec id 7
\* PktA with the two low CRC bytes zeroed
PktBadCrc == PacketOf(DataPart(8, 1, RecordBytes(1), 1), 0)
\* header says one record, trailer says two
PktCount == GoodPacket(DataPart(8, 1, RecordBytes(1), 2))
\* the first bytes of a packet that declares a data length of 1 MiB
PktHuge == Zeros(4) \o BytesOf(2^20, 4) \o <<8, 1, 0, 0>>

\* An identifier of one non-printable byte (BEL).
BellId == <<7>>


(***************************************************************************)
(* Bounds and scenarios.                                                   *)
(***************************************************************************)
\* 'data' events delivered per connection (TCP may cut a stream anywhere).
MaxChunks == 3
\* Repository calls that fail in one run.
MaxRepoErrors == 1

Conns == {1, 2}

\* Each scenario names the identifier each device announces (NoImei: no
\* device connects) and the packets it then sends; `whole` marks a device
\* whose stream arrives in one TCP segment.
Scenarios == <<
    \* 1: a registered device sends two one-record packets
    [ids |-> <<RegisteredId, NoImei>>, whole |-> <<FALSE, FALSE>>,
     packets |-> <<(<<PktA, PktB>>), <<>>>>],
    \* 2: an unregistered device sends a packet with a record and one without
    [ids |-> <<UnregisteredId, NoImei>>, whole |-> <<FALSE, FALSE>>,
     packets |-> <<(<<PktA, PktNone>>), <<>>>>],
    \* 3: an undecodable packet (codec id 7) between two decodable ones
    [ids |-> <<RegisteredId, NoImei>>, whole |-> <<FALSE, FALSE>>,
     packets |-> <<(<<PktNone, PktCodec, PktA>>), <<>>>>],
    \* 4: a packet with a wrong CRC, then one whose record counts differ
    [ids |-> <<RegisteredId, NoImei>>, whole |-> <<FALSE, FALSE>>,
     packets |-> <<(<<PktBadCrc, PktCount>>), <<>>>>],
    \* 5: the same stream in one segment on connection 1 and cut on connection 2
    [ids |-> <<RegisteredId, RegisteredId>>, whole |-> <<TRUE, FALSE>>,
     packets |-> <<(<<PktA, PktNone>>), (<<PktA, PktNone>>)>>],
    \* 6: a record retransmitted on a second connection, together with a new one
    [ids |-> <<RegisteredId, RegisteredId>>, whole |-> <<TRUE, FALSE>>,
     packets |-> <<(<<PktA>>), (<<PktAB>>)>>],
    \* 7: a device announcing the empty identifier
    [ids |-> <<(<<>>), NoImei>>, whole |-> <<FALSE, FALSE>>,
     packets |-> <<(<<PktA>>), <<>>>>],
    \* 8: a device announcing an identifier with a non-printable byte
    [ids |-> <<BellId, NoImei>>, whole |-> <<FALSE, FALSE>>,
     packets |-> <<(<<PktNone>>), <<>>>>],
    \* 9: a packet header that declares 1 MiB of data, and a few bytes of it
    [ids |-> <<RegisteredId, NoImei>>, whole |-> <<FALSE, FALSE>>,
     packets |-> <<(<<PktHuge>>), <<>>>>]
>>

RECURSIVE Concat(_)
Concat(ss) == IF ss = <<>> THEN <<>> ELSE Head(ss) \o Concat(Tail(ss))

\* The byte stream of each connection in each scenario.
Streams ==
    [s \in 1..Len(Scenarios) |->
        [c \in Conns |->
            IF Scenarios[s].ids[c] = NoImei THEN <<>>
            ELSE Handshake(Scenarios[s].ids[c]) \o Concat(Scenarios[s].packets[c])]]

Stream(c)  == Streams[scn][c]
Whole(c)   == Scenarios[scn].whole[c]
Packets(c) == Scenarios[scn].packets[c]
DeviceId(c) == Scenarios[scn].ids[c]

(***************************************************************************)
(* services/device-validator.js                                            *)
(***************************************************************************)
TTL_MS == 300000

\* A lookup that ignores its `where` clause and answers with some truck.
findUniqueAny(id) == CHOOSE t \in Trucks : TRUE

\* prisma.truck.findUnique({ where: { imei } }) on the Truck table `table`
findUniqueIn(table, id) ==
    IF \E t \in table : t.imei = id
    THEN CHOOSE t \in table : t.imei = id
    ELSE NoTruck

findUnique(id) == findUniqueIn(Trucks, id)

\* A lookup that never takes the entry of the key.
CacheBypassed(id) == FALSE

\* validateIMEI up to its repository call: a live cache entry answers at once.
CacheHit(id) == id \in DOMAIN deviceCache /\ deviceCache[id].expiresAt > now

\* deviceCache.delete(imei) for an expired entry, as the lookup begins.
CacheAfterLookup(id) ==
    IF id \in DOMAIN deviceCache /\ ~CacheHit(id)
    THEN [k \in DOMAIN deviceCache \ {id} |-> deviceCache[k]]
    ELSE deviceCache

(***************************************************************************)
(* services/telemetry-ingestion.js                                         *)
(***************************************************************************)
\* The row built for one decoded record (recordsToInsert.push({...})).
\* roadSegmentId comes from assignRoadSegment, which never throws and takes
\* no part in the session's outcome; it, totalOdometer, gsmSignal and
\* rawData are left out of the row here.  The awaits of assignRoadSegment
\* fall within the suspension that ends with createMany.
BuildRow(record, truckId) ==
    LET mappedIO == mapAVLToFields(record.io) IN
    [timestamp       |-> record.timestamp,
     truckId         |-> truckId,
     latitude        |-> record.gps.latitude,
     longitude       |-> record.gps.longitude,
     altitude        |-> record.gps.altitude,
     speed           |-> record.gps.speed,
     heading         |-> record.gps.angle,
     satellites      |-> record.gps.satellites,
     axisX           |-> OrZero(mappedIO, "axisX"),
     axisY           |-> OrZero(mappedIO, "axisY"),
     axisZ           |-> OrZero(mappedIO, "axisZ"),
     ignition        |-> Truthy(mappedIO, "ignition"),
     movement        |-> Truthy(mappedIO, "movement"),
     externalVoltage |-> OrZero(mappedIO, "externalVoltage"),
     batteryVoltage  |-> OrZero(mappedIO, "batteryVoltage"),
     din1            |-> Truthy(mappedIO, "din1"),
     din2            |-> Truthy(mappedIO, "din2"),
     ain1            |-> OrZero(mappedIO, "ain1"),
     isLoaded        |-> Truthy(mappedIO, "din1"),
     processed       |-> FALSE]

BuildRows(records, truckId) == [i \in 1..Len(records) |-> BuildRow(records[i], truckId)]

\* createMany called without the option.
NoSkipDuplicates == FALSE

\* The `skipDuplicates` option processTelemetryPacket passes to createMany.
SkipDuplicates == TRUE

HasKey(table, row) ==
    \E i \in 1..Len(table) :
        table[i].truckId = row.truckId /\ table[i].timestamp = row.timestamp

RECURSIVE InsertSkipping(_, _, _)
InsertSkipping(table, data, i) ==
    IF i > Len(data) THEN table
    ELSE The({ InsertSkipping(t, data, i + 1) :
               t \in {IF HasKey(table, data[i]) THEN table ELSE Append(table, data[i])} })

\* prisma.truckTelemetry.createMany({data, skipDuplicates}) on a table
\* whose (truckId, timestamp) is unique: with skipDuplicates the rows whose
\* key is taken are left out; without it a taken key rejects the batch.
createMany(table, data, skipDuplicates) ==
    The({ IF skipDuplicates \/ Len(merged) = Len(table) + Len(data)
          THEN [ok |-> TRUE, table |-> merged]
          ELSE [ok |-> FALSE, table |-> table] :
          merged \in {InsertSkipping(table, data, 1)} })

(***************************************************************************)
(* services/tcp-server.js: the 'data' handler of one connection.           *)
(***************************************************************************)
\* buffer.slice(2, 2 + imeiLength).toString('ascii'): the high bit is dropped.
ToAscii(b) == [i \in 1..Len(b) |-> b[i] % 128]

\* `if (imei)`: null and the empty string are falsy.
ImeiTruthy(id) == id # NoImei /\ id # <<>>

dataLengthOf(b)   == ReadUInt(b, 4, 4)
packetLengthOf(b) == 8 + dataLengthOf(b) + 4

\* The loop goes on to slice a packet: a header and the whole packet are buffered.
Framed(b) == Len(b) >= 8 /\ Len(b) >= packetLengthOf(b)

HeadPacket(b) == SliceTo(b, packetLengthOf(b))

Ack(parsed) == UInt32BE(parsed.recordCount)

RemoveAt(s, i) == SubSeq(s, 1, i - 1) \o SubSeq(s, i + 1, Len(s))

\* A handshake that waits for the two length bytes only.
LengthBuffered(buf) == Len(buf) >= 2

\* The handshake goes on: the 2-byte length and the whole identifier are
\* buffered (neither `return` of the handshake is taken).
IdentifierBuffered(buf) == Len(buf) >= 2 /\ Len(buf) >= 2 + ReadUInt(buf, 0, 2)

\* socket.on('data'): append the segment; while expectingIMEI, wait for the
\* 2-byte length and the identifier, accept it with 0x01 and enter the loop.
DataEvent(c, n) ==
    /\ running = 0
    /\ chunks[c] < MaxChunks
    /\ n \in 1..(Len(Stream(c)) - sent[c])
    /\ (Whole(c) => n = Len(Stream(c)))
    /\ LET buf == buffer[c] \o SubSeq(Stream(c), sent[c] + 1, sent[c] + n)
           imeiLength == ReadUInt(buf, 0, 2)
       IN  /\ sent' = [sent EXCEPT ![c] = @ + n]
           /\ chunks' = [chunks EXCEPT ![c] = @ + 1]
           /\ IF expectingIMEI[c]
              THEN IF ~IdentifierBuffered(buf)
                   THEN /\ buffer' = [buffer EXCEPT ![c] = buf]
                        /\ UNCHANGED <<expectingIMEI, imei, sessions, running, written>>
                   ELSE LET id == ToAscii(SliceFrom(SliceTo(buf, 2 + imeiLength), 2)) IN
                        /\ imei' = [imei EXCEPT ![c] = id]
                        /\ sessions' = (c :> id) @@ sessions
                        /\ written' = [written EXCEPT ![c] = Append(@, <<1>>)]
                        /\ buffer' = [buffer EXCEPT ![c] = SliceFrom(buf, 2 + imeiLength)]
                        /\ expectingIMEI' = [expectingIMEI EXCEPT ![c] = FALSE]
                        /\ running' = c
              ELSE /\ buffer' = [buffer EXCEPT ![c] = buf]
                   /\ running' = c
                   /\ UNCHANGED <<expectingIMEI, imei, sessions, written>>
    /\ UNCHANGED <<scn, tasks, deviceCache, now, telemetry, repoErrors, handed, codecVars, jobVars>>

\* `while (buffer.length >= 8)` ends, or `break`s on an incomplete packet:
\* the handler returns.
LoopBreak(c) ==
    /\ running = c
    /\ ~Framed(buffer[c])
    /\ running' = 0
    /\ UNCHANGED <<scn, sent, chunks, buffer, expectingIMEI, imei, sessions, tasks,
                   deviceCache, now, telemetry, repoErrors, written, handed, codecVars, jobVars>>

\* A catch that leaves the loop: the undecodable packet stays in the buffer.
LoopParseErrorLeaves(c) ==
    /\ running = c
    /\ Framed(buffer[c])
    /\ ~parse(HeadPacket(buffer[c])).ok
    /\ running' = 0
    /\ UNCHANGED <<scn, sent, chunks, buffer, expectingIMEI, imei, sessions, tasks,
                   deviceCache, now, telemetry, repoErrors, written, handed, codecVars, jobVars>>

\* Codec8Parser.parse throws: the catch logs, then the packet is removed.
LoopParseError(c) ==
    /\ running = c
    /\ Framed(buffer[c])
    /\ ~parse(HeadPacket(buffer[c])).ok
    /\ buffer' = [buffer EXCEPT ![c] = SliceFrom(@, packetLengthOf(@))]
    /\ UNCHANGED <<scn, sent, chunks, expectingIMEI, imei, sessions, running, tasks,
                   deviceCache, now, telemetry, repoErrors, written, handed, codecVars, jobVars>>

\* The packet is decoded and needs no repository call: `imei` is falsy, or
\* processTelemetryPacket returns "Empty packet" at once.  ACK and remove.
LoopAck(c) ==
    /\ running = c
    /\ Framed(buffer[c])
    /\ \E parsed \in {parse(HeadPacket(buffer[c]))} :
       /\ parsed.ok
       /\ ~ImeiTruthy(imei[c]) \/ parsed.records = <<>>
       /\ handed' = IF ImeiTruthy(imei[c])
                    THEN [handed EXCEPT ![c] = Append(@, parsed)]
                    ELSE handed
       /\ written' = [written EXCEPT ![c] = Append(@, Ack(parsed))]
    /\ buffer' = [buffer EXCEPT ![c] = SliceFrom(@, packetLengthOf(@))]
    /\ UNCHANGED <<scn, sent, chunks, expectingIMEI, imei, sessions, running, tasks,
                   deviceCache, now, telemetry, repoErrors, codecVars, jobVars>>

\* The packet is decoded and handed to processTelemetryPacket, which calls
\* validateIMEI; the handler is suspended in `await` with its locals
\* `packet`, `parsed` and `packetLength`.  A live cache entry answers without a
\* repository call and ingestion goes on to build the rows and call createMany.
LoopIngest(c) ==
    /\ running = c
    /\ Framed(buffer[c])
    /\ \E parsed \in {parse(HeadPacket(buffer[c]))} :
       LET id == imei[c]
       IN  /\ parsed.ok
           /\ ImeiTruthy(id)
           /\ parsed.records # <<>>
           /\ handed' = [handed EXCEPT ![c] = Append(@, parsed)]
           /\ deviceCache' = CacheAfterLookup(id)
           /\ tasks' = Append(tasks,
                  [conn |-> c, imei |-> id, parsed |-> parsed,
                   packet |-> HeadPacket(buffer[c]),
                   packetLength |-> packetLengthOf(buffer[c]),
                   calledAt |-> now,
                   pc |-> IF CacheHit(id) THEN "createMany" ELSE "findUnique",
                   rows |-> IF CacheHit(id)
                            THEN BuildRows(parsed.records, deviceCache[id].truck.id)
                            ELSE <<>>])
    /\ running' = 0
    /\ UNCHANGED <<scn, sent, chunks, buffer, expectingIMEI, imei, sessions,
                   now, telemetry, repoErrors, written, codecVars, jobVars>>

\* findUnique answers with a truck: validateIMEI caches it, the rows are
\* built and createMany is called.
ValidateFound(i) ==
    /\ running = 0
    /\ i \in 1..Len(tasks)
    /\ tasks[i].pc = "findUnique"
    /\ LET t == tasks[i]
           truck == findUnique(t.imei)
       IN  /\ truck # NoTruck
           /\ deviceCache' = (t.imei :> [truck |-> truck, expiresAt |-> t.calledAt + TTL_MS])
                                 @@ deviceCache
           /\ tasks' = [tasks EXCEPT ![i].pc = "createMany",
                                     ![i].rows = BuildRows(t.parsed.records, truck.id)]
    /\ UNCHANGED <<scn, sent, chunks, buffer, expectingIMEI, imei, sessions, running,
                   now, telemetry, repoErrors, written, handed, codecVars, jobVars>>

\* The handler's catch after processTelemetryPacket threw: log, write
\* nothing, remove packetLength bytes and go on with the loop.
CatchAndContinue(i) ==
    LET t == tasks[i] IN
    /\ buffer' = [buffer EXCEPT ![t.conn] = SliceFrom(@, t.packetLength)]
    /\ tasks' = RemoveAt(tasks, i)
    /\ running' = t.conn
    /\ UNCHANGED <<written>>

\* findUnique answers null: processTelemetryPacket throws 'Unauthorized Device'.
ValidateUnauthorized(i) ==
    /\ running = 0
    /\ i \in 1..Len(tasks)
    /\ tasks[i].pc = "findUnique"
    /\ findUnique(tasks[i].imei) = NoTruck
    /\ CatchAndContinue(i)
    /\ UNCHANGED <<scn, sent, chunks, expectingIMEI, imei, sessions,
                   deviceCache, now, telemetry, repoErrors, handed, codecVars, jobVars>>

\* An ACK that counts the rows stored (recordsProcessed less the skipped
\* ones) instead of the records announced.
InsertReturnsAckStored(i) ==
    /\ running = 0
    /\ i \in 1..Len(tasks)
    /\ tasks[i].pc = "createMany"
    /\ \E r \in {createMany(telemetry, tasks[i].rows, SkipDuplicates)} :
       LET t == tasks[i]
       IN  /\ r.ok
           /\ telemetry' = r.table
           /\ written' = [written EXCEPT ![t.conn] =
                              Append(@, UInt32BE(Len(r.table) - Len(telemetry)))]
           /\ buffer' = [buffer EXCEPT ![t.conn] = SliceFrom(@, t.packetLength)]
           /\ tasks' = RemoveAt(tasks, i)
           /\ running' = t.conn
    /\ UNCHANGED <<scn, sent, chunks, expectingIMEI, imei, sessions,
                   deviceCache, now, repoErrors, handed, codecVars, jobVars>>

\* createMany returns: processTelemetryPacket returns, the handler writes
\* the ACK, removes packetLength bytes and goes on with the loop.
InsertReturns(i) ==
    /\ running = 0
    /\ i \in 1..Len(tasks)
    /\ tasks[i].pc = "createMany"
    /\ \E r \in {createMany(telemetry, tasks[i].rows, SkipDuplicates)} :
       LET t == tasks[i]
       IN  /\ r.ok
           /\ telemetry' = r.table
           /\ written' = [written EXCEPT ![t.conn] = Append(@, Ack(t.parsed))]
           /\ buffer' = [buffer EXCEPT ![t.conn] = SliceFrom(@, t.packetLength)]
           /\ tasks' = RemoveAt(tasks, i)
           /\ running' = t.conn
    /\ UNCHANGED <<scn, sent, chunks, expectingIMEI, imei, sessions,
                   deviceCache, now, repoErrors, handed, codecVars, jobVars>>

\* A repository call (findUnique or createMany) fails, or createMany
\* rejects the batch: processTelemetryPacket throws.
RepositoryThrows(i) ==
    /\ running = 0
    /\ i \in 1..Len(tasks)
    /\ \/ repoErrors < MaxRepoErrors
       \/ tasks[i].pc = "createMany"
            /\ ~createMany(telemetry, tasks[i].rows, SkipDuplicates).ok
    /\ repoErrors' = repoErrors + 1
    /\ CatchAndContinue(i)
    /\ UNCHANGED <<scn, sent, chunks, expectingIMEI, imei, sessions,
                   deviceCache, now, telemetry, handed, codecVars, jobVars>>

(***************************************************************************)
(* config/constants.js and algorithms/rms-calculator.js: the event         *)
(* detector.  A TruckTelemetry row's id is its position in `telemetry`.    *)
(***************************************************************************)
\* IRI_CATEGORIES in tenths, SEGMENT_PROXIMITY in meters.
THRESHOLDS  == [ROUGHNESS      |-> [MEDIUM |-> 2000, HIGH |-> 2500, CRITICAL |-> 3500],
                IRI_CATEGORIES |-> [GOOD |-> 25, FAIR |-> 40, POOR |-> 60],
                SEGMENT_PROXIMITY |-> 50]
BATCH_SIZES == [TELEMETRY_INSERT |-> 100, EVENT_PROCESSING |-> 1000]

\* Math.abs and Math.max
Abs(x)    == IF x < 0 THEN -x ELSE x
Max(a, b) == IF a >= b THEN a ELSE b

\* `severity = null`
NoSeverity == ""

\* The severity of one sample, from the absolute value of its axisZ.
Classify(absZ) ==
    IF absZ > THRESHOLDS.ROUGHNESS.CRITICAL THEN "CRITICAL"
    ELSE IF absZ > THRESHOLDS.ROUGHNESS.HIGH THEN "HIGH"
    ELSE IF absZ > THRESHOLDS.ROUGHNESS.MEDIUM THEN "MEDIUM"
    ELSE NoSeverity

\* An event that takes the severity of its latest sample.
UpgradeToLatest(current, severity) == severity

\* "Upgrade severity": what currentEvent.severity becomes when a sample of
\* `severity` continues the event.
Upgrade(current, severity) ==
    IF severity = "CRITICAL" THEN "CRITICAL"
    ELSE IF severity = "HIGH" /\ current # "CRITICAL" THEN "HIGH"
    ELSE current

\* "Start new event"
OpenEvent(record, absZ, severity) ==
    [timestamp     |-> record.timestamp,
     truckId       |-> record.truckId,
     latitude      |-> record.latitude,
     longitude     |-> record.longitude,
     roadSegmentId |-> record.roadSegmentId,
     eventType     |-> "bump",
     severity      |-> severity,
     peakZAxis     |-> absZ,
     peakXAxis     |-> record.axisX,
     peakYAxis     |-> record.axisY,
     durationMs    |-> 0,
     speedKmh      |-> record.speed,
     isLoaded      |-> record.isLoaded,
     lastTimestamp |-> record.timestamp]

\* A continuation that keeps the gap to the sample before, not the sum.
ContinueWithLastGap(ev, record, absZ, severity) ==
    [ev EXCEPT !.durationMs    = record.timestamp - ev.lastTimestamp,
               !.peakZAxis     = Max(@, absZ),
               !.severity      = Upgrade(@, severity),
               !.lastTimestamp = record.timestamp]

\* "Continue event"
ContinueEvent(ev, record, absZ, severity) ==
    [ev EXCEPT !.durationMs    = @ + (record.timestamp - ev.lastTimestamp),
               !.peakZAxis     = Max(@, absZ),
               !.severity      = Upgrade(@, severity),
               !.lastTimestamp = record.timestamp]

\* `delete currentEvent.lastTimestamp`
WithoutLast(ev) == [f \in DOMAIN ev \ {"lastTimestamp"} |-> ev[f]]

\* The locals of the scan before its first pass: currentEvent (<<>> for
\* null) and events; `window` and `windows` record, beside them, the ids of
\* the samples each event was opened and continued with.
ScanStart == [currentEvent |-> <<>>, window |-> <<>>, events |-> <<>>, windows |-> <<>>]

\* One pass of the scan loop, over the row `record` of id `id`.
ScanStep(record, id, st) ==
    LET absZ     == Abs(record.axisZ)    \* `record.axisZ || 0`: axisZ is a number here
        severity == Classify(absZ)
    IN  IF severity # NoSeverity
        THEN IF st.currentEvent # <<>>
             THEN [st EXCEPT !.currentEvent =
                                 <<ContinueEvent(st.currentEvent[1], record, absZ, severity)>>,
                             !.window = Append(@, id)]
             ELSE [st EXCEPT !.currentEvent = <<OpenEvent(record, absZ, severity)>>,
                             !.window = <<id>>]
        ELSE IF st.currentEvent # <<>>
             THEN [currentEvent |-> <<>>, window |-> <<>>,
                   events  |-> Append(st.events, WithoutLast(st.currentEvent[1])),
                   windows |-> Append(st.windows, st.window)]
             ELSE st

\* The passes of the loop over batch[lo..hi], one after the other, from
\* the locals `st`: the first half of them, then the second from where the
\* first ends.
RECURSIVE ScanRange(_, _, _, _, _)
ScanRange(table, batch, lo, hi, st) ==
    IF lo > hi THEN st
    ELSE IF lo = hi THEN ScanStep(table[batch[lo]], batch[lo], st)
    ELSE The({ ScanRange(table, batch, ((lo + hi) \div 2) + 1, hi, st2) :
               st2 \in {ScanRange(table, batch, lo, (lo + hi) \div 2, st)} })

ScanFrom(table, batch, i, st) == ScanRange(table, batch, i, Len(batch), st)

\* A scan that ends with the loop, without the pending event.
ScanWithoutPending(table, batch) ==
    The({ [events |-> st.events, windows |-> st.windows] :
          st \in {ScanFrom(table, batch, 1, ScanStart)} })

\* The scan of a batch and "Push pending event if batch ended".
Scan(table, batch) ==
    The({ IF st.currentEvent # <<>>
          THEN [events  |-> Append(st.events, WithoutLast(st.currentEvent[1])),
                windows |-> Append(st.windows, st.window)]
          ELSE [events |-> st.events, windows |-> st.windows] :
          st \in {ScanFrom(table, batch, 1, ScanStart)} })

\* findMany({where: {processed: false}, take, orderBy: {timestamp: 'asc'}}):
\* the ids of the unprocessed rows by ascending timestamp, rows of equal
\* timestamp in any order, cut to `take`.
Unprocessed(table) == {id \in 1..Len(table) : ~table[id].processed}

\* The orders findMany may return the unprocessed rows in.  Where the
\* table is in the order of its timestamps and no two rows have the same
\* one, that is the one order by id.
SortedOrders(table) ==
    LET ids == Unprocessed(table)
        n   == Cardinality(ids)
        IsUnprocessed(id) == ~table[id].processed
    IN  IF \A id \in 2..Len(table) : table[id - 1].timestamp < table[id].timestamp
        THEN { SelectSeq([id \in 1..Len(table) |-> id], IsUnprocessed) }
        ELSE { o \in [1..n -> ids] :
                 /\ \A i, j \in 1..n : i # j => o[i] # o[j]
                 /\ \A i \in 1..(n - 1) :
                        table[o[i]].timestamp <= table[o[i + 1]].timestamp }

\* A fetch without `take`.
FetchAll(table, take) == SortedOrders(table)

FetchOrders(table, take) ==
    { SubSeq(b, 1, IF Len(b) < take THEN Len(b) ELSE take) : b \in SortedOrders(table) }

\* An update that sets the flag of the listed rows and clears every other.
MarkedOnly(table, ids) ==
    [id \in 1..Len(table) |->
        [table[id] EXCEPT !.processed = \E k \in 1..Len(ids) : ids[k] = id]]

\* updateMany({where: {id: {in: processedIds}}, data: {processed: true}})
MarkedProcessed(table, ids) ==
    [id \in 1..Len(table) |->
        IF \E k \in 1..Len(ids) : ids[k] = id
        THEN [table[id] EXCEPT !.processed = TRUE]
        ELSE table[id]]

\* Calls of detectRoughnessEvents that may be in progress together.
Detectors == {1, 2}

DetIdle == [pc |-> "idle", processedIds |-> <<>>, events |-> <<>>, windows |-> <<>>]

\* detectRoughnessEvents up to its first write: fetch, return on an empty
\* batch, else scan; then createMany is pending if there are events,
\* updateMany if there are none.
DetFetch(d) ==
    /\ det[d].pc = "idle"
    /\ \E batch \in FetchOrders(telemetry, BATCH_SIZES.EVENT_PROCESSING) :
       \E r \in {Scan(telemetry, batch)} :
           det' = [det EXCEPT ![d] =
                     [pc |-> IF batch = <<>> THEN "done"
                             ELSE IF r.events # <<>> THEN "createMany"
                             ELSE "updateMany",
                      processedIds |-> batch,
                      events  |-> r.events,
                      windows |-> r.windows]]
    /\ UNCHANGED <<sessVars, codecVars, events, aggVars, segVars>>

\* prisma.roughnessEvent.createMany({data: events}) returns.
DetSaveEvents(d) ==
    /\ det[d].pc = "createMany"
    /\ events' = events \o det[d].events
    /\ det' = [det EXCEPT ![d].pc = "updateMany"]
    /\ UNCHANGED <<sessVars, codecVars, aggVars, segVars>>

\* prisma.truckTelemetry.updateMany returns and the call ends.
DetMarkProcessed(d) ==
    /\ det[d].pc = "updateMany"
    /\ telemetry' = MarkedProcessed(telemetry, det[d].processedIds)
    /\ det' = [det EXCEPT ![d].pc = "done"]
    /\ UNCHANGED <<scn, sent, chunks, buffer, expectingIMEI, imei, sessions, running,
                   tasks, deviceCache, now, repoErrors, written, handed, codecVars, events,
                   aggVars, segVars>>

\* The repository call the detector waits for fails: the rejection leaves
\* detectRoughnessEvents, which has no catch.
DetRepositoryThrows(d) ==
    /\ det[d].pc \in {"idle", "createMany", "updateMany"}
    /\ repoErrors < MaxRepoErrors
    /\ repoErrors' = repoErrors + 1
    /\ det' = [det EXCEPT ![d].pc = "failed"]
    /\ UNCHANGED <<scn, sent, chunks, buffer, expectingIMEI, imei, sessions, running,
                   tasks, deviceCache, now, telemetry, written, handed, codecVars, events,
                   aggVars, segVars>>

(***************************************************************************)
(* algorithms/rms-calculator.js and algorithms/iri-estimator.js: numbers   *)
(* with two decimals are integers of hundredths.                           *)
(***************************************************************************)
RECURSIVE SumOf(_)
SumOf(values) == IF values = <<>> THEN 0 ELSE values[1] + SumOf(Tail(values))

RECURSIVE SumOfSquares(_)
SumOfSquares(values) ==
    IF values = <<>> THEN 0 ELSE values[1] * values[1] + SumOfSquares(Tail(values))

\* Math.sqrt rounded down: the greatest r in lo..hi with r * r <= x.
RECURSIVE SqrtBetween(_, _, _)
SqrtBetween(x, lo, hi) ==
    IF lo = hi THEN lo
    ELSE LET mid == (lo + hi + 1) \div 2
         IN  IF mid * mid <= x THEN SqrtBetween(x, mid, hi)
             ELSE SqrtBetween(x, lo, mid - 1)

\* calculateRoughness(values), in hundredths.  With n values of sum s and
\* sum of squares q the variance is (n * q - s * s) / (n * n), so the
\* standard deviation times 100 is sqrt(10000 * (n * q - s * s)) / n, which
\* toFixed(2) rounds to the nearest integer.  (The integers of the model
\* hold roots up to 46340.)
calculateRoughness(values) ==
    LET n == Len(values)
    IN  IF n = 0 \/ n = 1 THEN 0
        ELSE The({ (SqrtBetween(40000 * d, 0, 46340) + n) \div (2 * n) :
                   d \in {n * SumOfSquares(values) - SumOf(values) * SumOf(values)} })

\* estimateIRI(zAxisValues, speedKmh) for the speed speedSum / count (an
\* average of `count` speeds): the category, and the iri in hundredths.
\* With h the roughness in hundredths, the estimate (h / 100 / 1000) * 15 *
\* (30 / speed) is 9 * h * count / (2000 * speedSum); it is capped at 20 and
\* compared, before rounding, with the category limits (in tenths).
estimateIRI(zAxisValues, speedSum, count) ==
    IF speedSum < 5 * count THEN [iri |-> 0, category |-> "good"]
    ELSE \* num / den is the estimate before the cap
         LET num    == 9 * calculateRoughness(zAxisValues) * count
             den    == 2000 * speedSum
             capped == num > 20 * den
             Over(limit) == capped \/ 10 * num > limit * den
         IN  [iri      |-> IF capped THEN 2000 ELSE (200 * num + den) \div (2 * den),
              category |-> IF Over(THRESHOLDS.IRI_CATEGORIES.POOR) THEN "very_poor"
                           ELSE IF Over(THRESHOLDS.IRI_CATEGORIES.FAIR) THEN "poor"
                           ELSE IF Over(THRESHOLDS.IRI_CATEGORIES.GOOD) THEN "fair"
                           ELSE "good"]

(***************************************************************************)
(* jobs/daily-aggregator.js: aggregateDailyStats.  Dates are milliseconds  *)
(* since the epoch, in the zone of the server, taken as UTC.               *)
(***************************************************************************)
DayMs == 24 * 60 * 60 * 1000

\* yesterday.setDate(yesterday.getDate() - 1); yesterday.setHours(0, 0, 0, 0)
StartOfYesterday(t) == ((t \div DayMs) - 1) * DayMs

\* yesterday.setHours(23, 59, 59, 999)
EndOfYesterday(t) == StartOfYesterday(t) + ((23 * 60 + 59) * 60 + 59) * 1000 + 999

\* prisma.roadSegment.findMany({select: {id: true}}): the ids of RoadSegment.
Segments == <<1, 2>>

\* The rows of `table` (TruckTelemetry or RoughnessEvent) of a segment whose
\* timestamp is in the window, in table order.
RECURSIVE InWindow(_, _, _, _)
InWindow(table, segmentId, startOfDay, endOfDay) ==
    IF table = <<>> THEN <<>>
    ELSE LET rest == InWindow(Tail(table), segmentId, startOfDay, endOfDay)
         IN  IF /\ table[1].roadSegmentId = segmentId
                /\ table[1].timestamp >= startOfDay
                /\ table[1].timestamp <= endOfDay
             THEN <<table[1]>> \o rest
             ELSE rest

\* A count that takes every row for a loaded one.
CountEvery(rows) == Len(rows)

\* telemetry.filter(t => t.isLoaded).length
CountLoaded(rows) == Cardinality({i \in 1..Len(rows) : rows[i].isLoaded})

\* The count of the rows of `rows` with severity: 'CRITICAL'.
CountCritical(rows) == Cardinality({i \in 1..Len(rows) : rows[i].severity = "CRITICAL"})

\* What the call computes from the rows fetched for a segment.
Aggregates(rows) ==
    LET zValues == [i \in 1..Len(rows) |-> rows[i].axisZ]
        speeds  == [i \in 1..Len(rows) |-> rows[i].speed]
    IN  The({ [totalPasses  |-> Len(rows),
               loadedPasses |-> CountLoaded(rows),
               stdDevZAxis  |-> calculateRoughness(zValues),
               estimatedIri |-> e.iri,
               iriCategory  |-> e.category] :
              e \in {estimateIRI(zValues, SumOf(speeds), Len(rows))} })

\* A RoadSegmentStats table that takes every row given to it.
CreateAlways(table, row) == Append(table, row)

\* prisma.roadSegmentStats.upsert on the unique key roadSegmentId_date:
\* `update` and `create` carry the same values.
Upsert(table, row) ==
    IF \E i \in 1..Len(table) :
           table[i].roadSegmentId = row.roadSegmentId /\ table[i].date = row.date
    THEN [i \in 1..Len(table) |->
             IF table[i].roadSegmentId = row.roadSegmentId /\ table[i].date = row.date
             THEN row ELSE table[i]]
    ELSE Append(table, row)

\* Calls of aggregateDailyStats the model makes, one after the other.
MaxAggRuns == 2

AggIdle == [pc |-> "idle", run |-> 0, startOfDay |-> 0, endOfDay |-> 0,
            todo |-> <<>>, row |-> <<>>, dates |-> <<>>]

\* The loop of the call goes on with the segments `todo`; with none left
\* the call returns (`dates` keeps the days of the calls that returned).
AggGoOn(a, todo) ==
    IF todo = <<>>
    THEN [a EXCEPT !.pc = "idle", !.todo = <<>>, !.row = <<>>,
                   !.dates = Append(@, a.startOfDay)]
    ELSE [a EXCEPT !.pc = "telemetry", !.todo = todo, !.row = <<>>]

\* aggregateDailyStats is called: the window of yesterday and the segments.
AggStart ==
    /\ agg.pc = "idle"
    /\ agg.run < MaxAggRuns
    /\ agg' = AggGoOn([agg EXCEPT !.run = @ + 1,
                                  !.startOfDay = StartOfYesterday(now),
                                  !.endOfDay = EndOfYesterday(now)], Segments)
    /\ UNCHANGED <<sessVars, codecVars, det, events, stats, segVars>>

\* "1. Fetch raw data for segment/day", `continue` on none, else "2." and "3."
AggTelemetry ==
    /\ agg.pc = "telemetry"
    /\ \E rows \in {InWindow(telemetry, agg.todo[1], agg.startOfDay, agg.endOfDay)} :
           agg' = IF rows = <<>> THEN AggGoOn(agg, Tail(agg.todo))
                  ELSE [agg EXCEPT !.pc = "events", !.row = <<Aggregates(rows)>>]
    /\ UNCHANGED <<sessVars, codecVars, det, events, stats, segVars>>

\* "4. Count Events": the first aggregate
AggCountEvents ==
    /\ agg.pc = "events"
    /\ \E n \in {Len(InWindow(events, agg.todo[1], agg.startOfDay, agg.endOfDay))} :
           agg' = [agg EXCEPT !.pc = "critical",
                              !.row = <<[roughnessEventCount |-> n] @@ agg.row[1]>>]
    /\ UNCHANGED <<sessVars, codecVars, det, events, stats, segVars>>

\* the second aggregate, with severity: 'CRITICAL'
AggCountCritical ==
    /\ agg.pc = "critical"
    /\ \E n \in {CountCritical(InWindow(events, agg.todo[1], agg.startOfDay,
                                         agg.endOfDay))} :
           agg' = [agg EXCEPT !.pc = "upsert",
                              !.row = <<[criticalEventCount |-> n] @@ agg.row[1]>>]
    /\ UNCHANGED <<sessVars, codecVars, det, events, stats, segVars>>

\* "5. Upsert Stats", and the next segment or the end of the call
AggUpsert ==
    /\ agg.pc = "upsert"
    /\ stats' = Upsert(stats, [roadSegmentId |-> agg.todo[1], date |-> agg.startOfDay]
                                  @@ agg.row[1])
    /\ agg' = AggGoOn(agg, Tail(agg.todo))
    /\ UNCHANGED <<sessVars, codecVars, det, events, segVars>>

(***************************************************************************)
(* services/segment-assignment.js.  Coordinates are integers of 1e-7       *)
(* degree, as the decoded record carries them.                             *)
(***************************************************************************)
CACHE_SIZE_LIMIT == 1000

\* `null` for a segment id (the ids of RoadSegment are positive).
NoSegment == 0

\* Number(x).toFixed(4): the sign, written for every x below zero, and the
\* ten-thousandths of a degree, rounded.
Fixed4(x) == <<x < 0, (Abs(x) + 500) \div 1000>>

getCacheKey(lat, lon) == <<Fixed4(lat), Fixed4(lon)>>

\* The Map as the sequence of its entries in insertion order.  `at` counts
\* the insertions up to the entry's own: no code reads it.
MapHas(cache, key) == \E p \in 1..Len(cache) : cache[p].key = key

MapGet(cache, key) == cache[CHOOSE p \in 1..Len(cache) : cache[p].key = key].value

\* Map.set: a key already present keeps its place and takes the value.
MapSet(cache, key, value) ==
    IF MapHas(cache, key)
    THEN [p \in 1..Len(cache) |->
             IF cache[p].key = key THEN [cache[p] EXCEPT !.value = value] ELSE cache[p]]
    ELSE Append(cache, [key |-> key, value |-> value,
                        at |-> IF cache = <<>> THEN 1 ELSE cache[Len(cache)].at + 1])

\* A cache management that deletes the entry set last.
EvictLatest(cache) ==
    IF Len(cache) >= CACHE_SIZE_LIMIT THEN SubSeq(cache, 1, Len(cache) - 1) ELSE cache

\* "Cache management": with the cache at its limit, the first key of
\* segmentCache.keys() is deleted.
Evict(cache) ==
    IF Len(cache) >= CACHE_SIZE_LIMIT THEN Tail(cache) ELSE cache

\* The RoadSegment table: the geometry of a segment is reduced to the point
\* of the meridian of longitude 0 at `latitude`.
RoadSegment == <<[id |-> 1, latitude |-> 3600], [id |-> 2, latitude |-> 900]>>

\* The distance in millimetres between a point of that meridian and a
\* segment (1e-7 degree of latitude is 11.1 mm).
DistanceMm(lat, seg) == (Abs(lat - seg.latitude) * 111) \div 10

\* The rows the query may answer with: ST_DWithin(point, geometry, 50) and
\* LIMIT 1 with no ORDER BY give any one segment within 50 m; segmentId is
\* its id, or null with no row.
QueryResults(lat, lon) ==
    LET within == {p \in 1..Len(RoadSegment) : DistanceMm(lat, RoadSegment[p]) <= 50 * 1000}
    IN  IF within = {} THEN {NoSegment} ELSE {RoadSegment[p].id : p \in within}

(***************************************************************************)
(* services/telemetry-ingestion.js: the record loop of                     *)
(* processTelemetryPacket, with its calls of assignRoadSegment.            *)
(***************************************************************************)
\* Calls of processTelemetryPacket that may be in progress together.
Ingests == {1, 2}

IngestIdle == [pc |-> "idle", imei |-> NoImei, calledAt |-> 0, truckId |-> 0,
               records |-> <<>>, k |-> 1, rows |-> <<>>, failed |-> {}]

\* recordsToInsert.push({...}) with `segmentId`, and the next pass of the
\* loop or, behind the last record, the call of createMany.
PushRow(g, segmentId) ==
    [g EXCEPT !.rows = Append(@, [roadSegmentId |-> segmentId]
                                     @@ BuildRow(g.records[g.k], g.truckId)),
              !.k = @ + 1,
              !.pc = IF g.k = Len(g.records) THEN "createMany" ELSE "assign"]

\* assignRoadSegment is called for the record: a cached key answers at
\* once, any other sends the query.
IngestAssign(i) ==
    /\ ingests[i].pc = "assign"
    /\ LET g   == ingests[i]
           gps == g.records[g.k].gps
           key == getCacheKey(gps.latitude, gps.longitude)
       IN  ingests' = [ingests EXCEPT ![i] =
                          IF MapHas(segmentCache, key)
                          THEN PushRow(g, MapGet(segmentCache, key))
                          ELSE [g EXCEPT !.pc = "query"]]
    /\ UNCHANGED <<sessVars, codecVars, det, events, aggVars, segmentCache>>

\* The query answers: cache management, segmentCache.set, return.
IngestQueryReturns(i) ==
    /\ ingests[i].pc = "query"
    /\ LET g   == ingests[i]
           gps == g.records[g.k].gps
       IN  \E segmentId \in QueryResults(gps.latitude, gps.longitude) :
               /\ segmentCache' = MapSet(Evict(segmentCache),
                                         getCacheKey(gps.latitude, gps.longitude), segmentId)
               /\ ingests' = [ingests EXCEPT ![i] = PushRow(g, segmentId)]
    /\ UNCHANGED <<sessVars, codecVars, det, events, aggVars>>

\* A failure of the query that also caches null for the key.
IngestQueryFailsCaches(i) ==
    /\ ingests[i].pc = "query"
    /\ repoErrors < MaxRepoErrors
    /\ repoErrors' = repoErrors + 1
    /\ LET g   == ingests[i]
           gps == g.records[g.k].gps
       IN  /\ segmentCache' = MapSet(Evict(segmentCache),
                                     getCacheKey(gps.latitude, gps.longitude), NoSegment)
           /\ ingests' = [ingests EXCEPT ![i] =
                             PushRow([g EXCEPT !.failed = @ \cup {g.k}], NoSegment)]
    /\ UNCHANGED <<scn, sent, chunks, buffer, expectingIMEI, imei, sessions, running,
                   tasks, deviceCache, now, telemetry, written, handed, codecVars,
                   det, events, aggVars>>

\* The query fails: the catch logs and returns null (`failed` keeps the
\* records it happened to: no code reads it).
IngestQueryFails(i) ==
    /\ ingests[i].pc = "query"
    /\ repoErrors < MaxRepoErrors
    /\ repoErrors' = repoErrors + 1
    /\ LET g == ingests[i]
       IN  ingests' = [ingests EXCEPT ![i] =
                          PushRow([g EXCEPT !.failed = @ \cup {g.k}], NoSegment)]
    /\ UNCHANGED <<scn, sent, chunks, buffer, expectingIMEI, imei, sessions, running,
                   tasks, deviceCache, now, telemetry, written, handed, codecVars,
                   det, events, aggVars, segmentCache>>

\* "3. Batch Insert": createMany returns and the call returns.
IngestInsert(i) ==
    /\ ingests[i].pc = "createMany"
    /\ \E r \in {createMany(telemetry, ingests[i].rows, SkipDuplicates)} :
           /\ r.ok
           /\ telemetry' = r.table
    /\ ingests' = [ingests EXCEPT ![i].pc = "done"]
    /\ UNCHANGED <<scn, sent, chunks, buffer, expectingIMEI, imei, sessions, running,
                   tasks, deviceCache, now, repoErrors, written, handed, codecVars,
                   det, events, aggVars, segmentCache>>

(***************************************************************************)
(* services/device-validator.js: validateIMEI as processTelemetryPacket    *)
(* calls it, over a Truck table of many devices.                           *)
(***************************************************************************)
\* The cap of the device cache.
DeviceCacheCap == 10000

\* The identifier of device n: its five decimal digits in ASCII.
FleetImei(n) ==
    <<48 + ((n \div 10000) % 10), 48 + ((n \div 1000) % 10), 48 + ((n \div 100) % 10),
      48 + ((n \div 10) % 10), 48 + (n % 10)>>

FleetNumber(id) ==
    (id[1] - 48) * 10000 + (id[2] - 48) * 1000 + (id[3] - 48) * 100
        + (id[4] - 48) * 10 + (id[5] - 48)

FleetTruck(n) == [id |-> n, imei |-> FleetImei(n), truckId |-> n, status |-> "ACTIVE"]

\* A Truck table of two devices more than the cap.
Fleet == {FleetTruck(n) : n \in 1..(DeviceCacheCap + 2)}

\* The device cache when devices 1..n have been validated at time 0.
FleetCache(n) ==
    [id \in {FleetImei(k) : k \in 1..n} |->
        [truck |-> FleetTruck(FleetNumber(id)), expiresAt |-> TTL_MS]]

\* validateIMEI is called: a live entry answers at once; an expired one is
\* deleted and, as for a key not cached, the query is sent.
ValidateCall(i) ==
    /\ ingests[i].pc = "validate"
    /\ LET id == ingests[i].imei
       IN  IF CacheHit(id)
           THEN /\ ingests' = [ingests EXCEPT ![i].pc = "assign",
                                              ![i].truckId = deviceCache[id].truck.id]
                /\ UNCHANGED deviceCache
           ELSE /\ ingests' = [ingests EXCEPT ![i].pc = "findUnique", ![i].calledAt = now]
                /\ deviceCache' = CacheAfterLookup(id)
    /\ UNCHANGED <<scn, sent, chunks, buffer, expectingIMEI, imei, sessions, running,
                   tasks, now, telemetry, repoErrors, written, handed, codecVars,
                   det, events, aggVars, segmentCache>>

\* The query answers: a truck is cached and returned; with null
\* processTelemetryPacket throws 'Unauthorized Device'.
ValidateAnswers(i) ==
    /\ ingests[i].pc = "findUnique"
    /\ \E truck \in {findUniqueIn(Fleet, ingests[i].imei)} :
           IF truck # NoTruck
           THEN /\ deviceCache' =
                       (ingests[i].imei :> [truck |-> truck,
                                            expiresAt |-> ingests[i].calledAt + TTL_MS])
                           @@ deviceCache
                /\ ingests' = [ingests EXCEPT ![i].pc = "assign", ![i].truckId = truck.id]
           ELSE /\ ingests' = [ingests EXCEPT ![i].pc = "threw"]
                /\ UNCHANGED deviceCache
    /\ UNCHANGED <<scn, sent, chunks, buffer, expectingIMEI, imei, sessions, running,
                   tasks, now, telemetry, repoErrors, written, handed, codecVars,
                   det, events, aggVars, segmentCache>>

\* No call of the detector has begun and RoughnessEvent is empty.
DetectorStart ==
    /\ det = [d \in Detectors |-> DetIdle]
    /\ events = <<>>

\* No call of the aggregator has begun and RoadSegmentStats is empty.
AggregatorStart ==
    /\ agg = AggIdle
    /\ stats = <<>>

\* No record loop has begun and the segment cache is empty.
SegmentsStart ==
    /\ segmentCache = <<>>
    /\ ingests = [i \in Ingests |-> IngestIdle]

JobsStart ==
    /\ DetectorStart
    /\ AggregatorStart
    /\ SegmentsStart

SocketsStart ==
    /\ sent = [c \in Conns |-> 0]
    /\ chunks = [c \in Conns |-> 0]
    /\ buffer = [c \in Conns |-> <<>>]
    /\ expectingIMEI = [c \in Conns |-> TRUE]
    /\ imei = [c \in Conns |-> NoImei]
    /\ sessions = <<>>
    /\ running = 0
    /\ tasks = <<>>
    /\ repoErrors = 0
    /\ written = [c \in Conns |-> <<>>]
    /\ handed = [c \in Conns |-> <<>>]

ConnectionsStart ==
    /\ SocketsStart
    /\ deviceCache = <<>>

SessionStart ==
    /\ ConnectionsStart
    /\ now = 0
    /\ telemetry = <<>>

Init ==
    /\ scn \in 1..Len(Scenarios)
    /\ SessionStart
    /\ input = <<>>
    /\ result = <<>>
    /\ JobsStart

Next ==
    \/ \E c \in Conns : \E n \in 1..(Len(Stream(c)) - sent[c]) : DataEvent(c, n)
    \/ \E c \in Conns : LoopBreak(c)
    \/ \E c \in Conns : LoopParseError(c)
    \/ \E c \in Conns : LoopAck(c)
    \/ \E c \in Conns : LoopIngest(c)
    \/ \E i \in 1..Len(tasks) : ValidateFound(i)
    \/ \E i \in 1..Len(tasks) : ValidateUnauthorized(i)
    \/ \E i \in 1..Len(tasks) : InsertReturns(i)
    \/ \E i \in 1..Len(tasks) : RepositoryThrows(i)

Spec == Init /\ [][Next]_vars

(***************************************************************************)
(* The codec on its own: Codec8Parser.parse applied to one buffer.         *)
(***************************************************************************)
\* b with the byte at position i replaced by v
WithByte(b, i, v) == [b EXCEPT ![i] = v]

PktExt == GoodPacket(DataPart(142, 1, RecordBytesExt(3), 1))
PktZ   == GoodPacket(DataPart(8, 2, RecordBytesZ(1, 2100) \o RecordBytes(2), 2))
\* Codec8-Extended packets whose records carry a fifth IO group
PktExtNX  == GoodPacket(DataPart(142, 1, RecordBytesExtNX(3, <<1, 2>>), 1))
PktExtNX2 == GoodPacket(DataPart(142, 2, RecordBytesExtNX(3, <<1, 2>>) \o RecordBytesExt(4), 2))

\* Packets whose data part ends before the records it declares: no record
\* for a count of one; one record for a count of two; a record without its
\* last two group counts and without the trailer count.
PktShort == GoodPacket(<<8, 1, 1>>)
PktOneOfTwo == GoodPacket(DataPart(8, 2, RecordBytes(1), 2))
PktCut == GoodPacket(<<8, 1>> \o SubSeq(RecordBytes(1), 1, 28))

\* Sound packets, packets with one field wrong, every one-byte corruption of
\* a one-record packet by a few values, and every truncation of it.
CodecInputs ==
    {PktA, PktB, PktAB, PktNone, PktCodec, PktBadCrc, PktCount, PktExt, PktZ,
     PktExtNX, PktExtNX2, PktShort, PktOneOfTwo, PktCut}
        \cup {WithByte(PktA, i, v) : i \in 1..Len(PktA), v \in {0, 1, 2, 8, 142, 255}}
        \cup {WithByte(PktExt, i, v) : i \in 1..Len(PktExt), v \in {1, 255}}
        \cup {SubSeq(PktA, 1, n) : n \in 0..Len(PktA)}

Decode ==
    /\ result = <<>>
    /\ result' = <<parse(input)>>
    /\ UNCHANGED <<sessVars, input, jobVars>>

CodecInit ==
    /\ scn = 1
    /\ SessionStart
    /\ input \in CodecInputs
    /\ result = <<>>
    /\ JobsStart

CodecNext == Decode

SpecCodec == CodecInit /\ [][CodecNext]_vars

(***************************************************************************)
(* The mapper on its own: mapAVLToFields applied to one list of elements.  *)
(***************************************************************************)
\* Elements of a list.
MaxIo == 2

\* Elements as parse pushes them: ids of AVL_ID_MAP (1, 19, 239) and ids
\* outside it (0, 181, 385).
IoElements ==
    {[id |-> id, value |-> value, byteSize |-> 2] :
        id \in {0, 1, 19, 181, 239, 385}, value \in {0, 1, 2100}}

IoLists == UNION { [1..n -> IoElements] : n \in 0..MaxIo }

MapFields ==
    /\ result = <<>>
    /\ result' = <<mapAVLToFields(input)>>
    /\ UNCHANGED <<sessVars, input, jobVars>>

MapperInit ==
    /\ scn = 1
    /\ SessionStart
    /\ input \in IoLists
    /\ result = <<>>
    /\ JobsStart

MapperNext == MapFields

SpecMapper == MapperInit /\ [][MapperNext]_vars

(***************************************************************************)
(* estimateIRI applied to one pair of arguments.  The values are two       *)
(* samples 0 and d, whose deviation is d / 2, and the speeds are whole     *)
(* km/h; for these arguments the doubles of the code and the exact         *)
(* quotients of estimateIRI above give the same estimate and category.     *)
(***************************************************************************)
IriValues == {<<0, d>> : d \in {0, 99, 100, 104, 159, 160, 161, 200, 224}}

IriSpeeds == {4, 5, 6, 9, 18, 30, 60}

\* Every pair of those, and a pair whose estimate, 0.45 * 94.5 / 17, is a
\* little over 2.5.
IriArguments ==
    [zAxisValues : IriValues, speedKmh : IriSpeeds]
        \cup {[zAxisValues |-> <<0, 189>>, speedKmh |-> 17]}

EstimateIri ==
    /\ result = <<>>
    /\ result' = <<estimateIRI(input.zAxisValues, input.speedKmh, 1)>>
    /\ UNCHANGED <<sessVars, input, jobVars>>

IriInit ==
    /\ scn = 1
    /\ SessionStart
    /\ input \in IriArguments
    /\ result = <<>>
    /\ JobsStart

IriNext == EstimateIri

SpecIri == IriInit /\ [][IriNext]_vars

(***************************************************************************)
(* The record loop on its own: calls of processTelemetryPacket for two     *)
(* trucks, possibly in progress together, past validateIMEI; the packet of *)
(* truck 2 holds one record, of latitude 0.                                *)
(***************************************************************************)
\* Records of a packet.
MaxPoints == 2

\* A decoded record of a fix at `latitude` on the meridian of longitude 0.
PointRecord(timestamp, latitude) ==
    [timestamp |-> timestamp, priority |-> 0,
     gps |-> [longitude |-> 0, latitude |-> latitude, altitude |-> 0, angle |-> 0,
              satellites |-> 0, speed |-> 0],
     eventIoId |-> 0, io |-> <<>>]

\* Latitudes 10 m and 40 m from the two segments; 4.4 m further north, of
\* the same cache key; and a kilometre away.
PointLatitudes == {0, 400, 100000}

PointLists ==
    UNION { { [k \in 1..n |-> PointRecord(k, lats[k])] : lats \in [1..n -> PointLatitudes] } :
            n \in 1..MaxPoints }

\* A cache that n calls for other places have filled.
FilledCache(n) ==
    [p \in 1..n |-> [key |-> getCacheKey(10000000 + 1000 * p, 0), value |-> NoSegment,
                     at |-> p]]

SegmentsInit ==
    /\ scn = 1
    /\ SessionStart
    /\ input = <<>>
    /\ result = <<>>
    /\ DetectorStart
    /\ AggregatorStart
    /\ segmentCache \in {FilledCache(n) : n \in {0, CACHE_SIZE_LIMIT - 1}}
    /\ \E r1 \in PointLists, r2 \in {<<PointRecord(1, 0)>>} :
           ingests = [i \in Ingests |->
                         [IngestIdle EXCEPT !.pc = "assign", !.truckId = i,
                                            !.records = IF i = 1 THEN r1 ELSE r2]]

SegmentsNext ==
    \/ \E i \in Ingests : IngestAssign(i)
    \/ \E i \in Ingests : IngestQueryReturns(i)
    \/ \E i \in Ingests : IngestQueryFails(i)
    \/ \E i \in Ingests : IngestInsert(i)

SpecSegments == SegmentsInit /\ [][SegmentsNext]_vars

(***************************************************************************)
(* validateIMEI on its own: two calls, possibly in progress together, for  *)
(* devices of the fleet, with the cache filled by the others; the second   *)
(* call is for the first device behind the cap.                            *)
(***************************************************************************)
\* Half-lives of a cache entry the clock runs through.
MaxTicks == 3

\* Device 1 is cached, the two devices behind the cap are not, and 00000 is
\* no device of the Truck table.
CalledImeis ==
    {FleetImei(1), FleetImei(DeviceCacheCap + 1), FleetImei(DeviceCacheCap + 2), FleetImei(0)}

\* Half of TTL_MS passes.
DeviceTick ==
    /\ now < MaxTicks * (TTL_MS \div 2)
    /\ now' = now + TTL_MS \div 2
    /\ UNCHANGED <<scn, sent, chunks, buffer, expectingIMEI, imei, sessions, running,
                   tasks, deviceCache, telemetry, repoErrors, written, handed, codecVars,
                   jobVars>>

DevicesInit ==
    /\ scn = 1
    /\ SocketsStart
    /\ deviceCache = FleetCache(DeviceCacheCap)
    /\ now = 0
    /\ telemetry = <<>>
    /\ input = <<>>
    /\ result = <<>>
    /\ DetectorStart
    /\ AggregatorStart
    /\ segmentCache = <<>>
    /\ \E id1 \in CalledImeis, id2 \in {FleetImei(DeviceCacheCap + 1)} :
           ingests = [i \in Ingests |->
                         [IngestIdle EXCEPT !.pc = "validate",
                                            !.imei = IF i = 1 THEN id1 ELSE id2]]

DevicesNext ==
    \/ \E i \in Ingests : ValidateCall(i)
    \/ \E i \in Ingests : ValidateAnswers(i)
    \/ DeviceTick

SpecDevices == DevicesInit /\ [][DevicesNext]_vars

(***************************************************************************)
(* The event detector on its own: calls of detectRoughnessEvents, possibly *)
(* in progress together, over a table of unprocessed samples.              *)
(***************************************************************************)
\* Rows of the sample tables.
MaxSamples == 3

\* A TruckTelemetry row as the detector selects it.
SampleRow(truckId, timestamp, axisZ) ==
    [truckId |-> truckId, timestamp |-> timestamp, latitude |-> 0, longitude |-> 0,
     axisX |-> 0, axisY |-> 0, axisZ |-> axisZ, speed |-> 30, isLoaded |-> FALSE,
     roadSegmentId |-> 1, processed |-> FALSE]

\* axisZ below the thresholds, MEDIUM, HIGH and (negative) CRITICAL; and
\* the values of HIGH and CRITICAL themselves.
SampleZ   == {2000, 2001, 2501, -3501}
BoundaryZ == {2500, 3500}

\* Two samples over the threshold, of one truck, whose axisX and axisY are
\* not 0: the first or the second has the greater absolute value.
SideAxis == {-5, 3}

PeakTables ==
    {<<[SampleRow(1, 1, 2001) EXCEPT !.axisX = x1, !.axisY = -x1],
       [SampleRow(1, 2, 2501) EXCEPT !.axisX = x2, !.axisY = -x2]>> :
        x1 \in SideAxis, x2 \in SideAxis}

\* A sample below the threshold that an earlier run has marked, and a
\* sample that came after that run.
ProcessedTables ==
    {<<[SampleRow(1, 1, 2000) EXCEPT !.processed = TRUE], SampleRow(1, 2, z)>> :
        z \in {2000, 2001}}

\* Tables of 1..MaxSamples samples of trucks 1 and 2, one per millisecond;
\* with `tie` the last two samples have the same timestamp.
SampleTables ==
    {<<SampleRow(1, 1, z)>> : z \in BoundaryZ}
    \cup PeakTables
    \cup ProcessedTables
    \cup UNION { { [i \in 1..n |-> SampleRow(trucks[i],
                                              IF tie /\ i = n /\ n > 1 THEN n - 1 ELSE i,
                                              zs[i])] :
                    zs \in [1..n -> SampleZ],
                    trucks \in {t \in [1..n -> {1, 2}] : t[1] = 1},
                    tie \in {b \in BOOLEAN : b => n > 1} } :
                  n \in 1..MaxSamples }

DetectorInit ==
    /\ scn = 1
    /\ ConnectionsStart
    /\ now = 0
    /\ telemetry \in SampleTables
    /\ input = <<>>
    /\ result = <<>>
    /\ JobsStart

DetectorNext ==
    \/ \E d \in Detectors : DetFetch(d)
    \/ \E d \in Detectors : DetSaveEvents(d)
    \/ \E d \in Detectors : DetMarkProcessed(d)
    \/ \E d \in Detectors : DetRepositoryThrows(d)

SpecDetector == DetectorInit /\ [][DetectorNext]_vars

(***************************************************************************)
(* Calls of detectRoughnessEvents one after the other, over a backlog of   *)
(* one batch or of one row more; no telemetry arrives and no repository    *)
(* call fails.                                                             *)
(***************************************************************************)
\* Samples one per millisecond, below the threshold but for the last two
\* of a full batch and the one after it.
BacklogTables ==
    { [i \in 1..n |->
          SampleRow(1, i, IF i = BATCH_SIZES.EVENT_PROCESSING - 1 THEN z1
                          ELSE IF i = BATCH_SIZES.EVENT_PROCESSING THEN z2
                          ELSE IF i = BATCH_SIZES.EVENT_PROCESSING + 1 THEN z3
                          ELSE 2000)] :
      n \in {BATCH_SIZES.EVENT_PROCESSING, BATCH_SIZES.EVENT_PROCESSING + 1},
      z1 \in {2000, 2001}, z2 \in SampleZ, z3 \in {2000, -3501} }

\* The next call begins when the one before it has returned.
DetFetchInTurn(d) ==
    /\ \A d0 \in Detectors : d0 < d => det[d0].pc = "done"
    /\ DetFetch(d)

BacklogInit ==
    /\ scn = 1
    /\ ConnectionsStart
    /\ now = 0
    /\ telemetry \in BacklogTables
    /\ input = <<>>
    /\ result = <<>>
    /\ JobsStart

BacklogNext ==
    \/ \E d \in Detectors : DetFetchInTurn(d)
    \/ \E d \in Detectors : DetSaveEvents(d)
    \/ \E d \in Detectors : DetMarkProcessed(d)

\* Each call that has begun goes on to its end, and the next call is made.
SpecBacklog == BacklogInit /\ [][BacklogNext]_vars /\ WF_vars(BacklogNext)

(***************************************************************************)
(* The aggregator on its own: calls of aggregateDailyStats one after the   *)
(* other, at 02:00 of day 1 or later, over tables that do not change.      *)
(***************************************************************************)
HourMs == 60 * 60 * 1000

\* A TruckTelemetry row as the aggregator selects it.
AggRow(roadSegmentId, timestamp, axisZ, speed, isLoaded) ==
    [SampleRow(1, timestamp, axisZ) EXCEPT !.roadSegmentId = roadSegmentId,
                                           !.speed = speed,
                                           !.isLoaded = isLoaded]

\* Rows of segments 1 and 2 of day 0, slow and fast, loaded and empty, and
\* a row of day 1.
AggRows ==
    {AggRow(1, 1, 0, 5, TRUE), AggRow(1, 2, 100, 5, FALSE), AggRow(1, 3, 60, 30, FALSE),
     AggRow(2, 4, 100, 4, TRUE), AggRow(1, DayMs + 1, 100, 5, FALSE)}

AggTables == UNION { [1..n -> AggRows] : n \in 0..MaxSamples }

\* A RoughnessEvent row of one sample.
EventRow(roadSegmentId, timestamp, axisZ) ==
    WithoutLast(OpenEvent(AggRow(roadSegmentId, timestamp, axisZ, 30, FALSE),
                          Abs(axisZ), Classify(Abs(axisZ))))

AggEventTables ==
    {<<>>,
     <<EventRow(1, 1, 2001), EventRow(1, 2, 3501)>>,
     <<EventRow(2, 4, -3501), EventRow(1, DayMs + 1, 2501)>>}

\* Twelve hours pass.
AggTick ==
    /\ now + 12 * HourMs < (MaxAggRuns + 1) * DayMs
    /\ now' = now + 12 * HourMs
    /\ UNCHANGED <<scn, sent, chunks, buffer, expectingIMEI, imei, sessions, running,
                   tasks, deviceCache, telemetry, repoErrors, written, handed, codecVars,
                   jobVars>>

AggregatorInit ==
    /\ scn = 1
    /\ ConnectionsStart
    /\ now = DayMs + 2 * HourMs
    /\ telemetry \in AggTables
    /\ input = <<>>
    /\ result = <<>>
    /\ det = [d \in Detectors |-> DetIdle]
    /\ events \in AggEventTables
    /\ AggregatorStart
    /\ SegmentsStart

AggregatorNext ==
    \/ AggStart
    \/ AggTelemetry
    \/ AggCountEvents
    \/ AggCountCritical
    \/ AggUpsert
    \/ AggTick

SpecAggregator == AggregatorInit /\ [][AggregatorNext]_vars

(***************************************************************************)
(* The two jobs together: calls of detectRoughnessEvents while             *)
(* aggregateDailyStats is in progress, over samples of segment 1 of the    *)
(* day the aggregator takes.                                               *)
(***************************************************************************)
\* One or two unprocessed samples of yesterday, loaded or empty, with one
\* axisZ, MEDIUM or CRITICAL, for the samples of a table.
JobsTables ==
    UNION { [1..n -> {AggRow(1, 1, z, 30, loaded) : loaded \in BOOLEAN}] :
            n \in 1..2, z \in {2001, -3501} }

JobsInit ==
    /\ scn = 1
    /\ ConnectionsStart
    /\ now = DayMs + 2 * HourMs
    /\ telemetry \in JobsTables
    /\ input = <<>>
    /\ result = <<>>
    /\ JobsStart

JobsNext ==
    \/ AggStart
    \/ AggTelemetry
    \/ AggCountEvents
    \/ AggCountCritical
    \/ AggUpsert
    \/ \E d \in Detectors : DetFetch(d)
    \/ \E d \in Detectors : DetSaveEvents(d)
    \/ \E d \in Detectors : DetMarkProcessed(d)

SpecJobs == JobsInit /\ [][JobsNext]_vars

(***************************************************************************)
(* Properties of the session, the codec and ingestion.                     *)
(***************************************************************************)
\* The identifier resolves to a registered truck.
Registered(id) == \E t \in Trucks : t.imei = id

\* Every byte of the connection's stream has been delivered, no handler of
\* the connection runs and none is suspended.
Delivered(c) == sent[c] = Len(Stream(c))
Idle(c)      == running # c /\ \A i \in 1..Len(tasks) : tasks[i].conn # c
Quiescent(c) == Delivered(c) /\ Idle(c)

\* The trailing CRC field of a framed packet differs from the CRC-16 of
\* its bytes [8, 8 + N).
CrcMismatch(p) ==
    ~validateCRC(SubSeq(p, 9, 8 + dataLengthOf(p)), ReadUInt(p, 8 + dataLengthOf(p), 4))

\* A structurally valid packet: it decodes, its two record counts agree and
\* its CRC field matches.
Sound(p) ==
    /\ parse(p).ok
    /\ recordCount2Of(p) = parse(p).recordCount
    /\ ~CrcMismatch(p)

\* What the packets ps decode to, in order, leaving out those parse throws on.
RECURSIVE DecodedOf(_)
DecodedOf(ps) ==
    IF ps = <<>> THEN <<>>
    ELSE IF parse(Head(ps)).ok THEN <<parse(Head(ps))>> \o DecodedOf(Tail(ps))
    ELSE DecodedOf(Tail(ps))

\* Per scenario and connection: what the packets sent decode to, in the
\* order sent, leaving out those parse throws on.
Decoded == [s \in 1..Len(Scenarios) |-> [c \in Conns |-> DecodedOf(Scenarios[s].packets[c])]]

\* Per scenario and connection: every packet sent is structurally valid.
AllSound ==
    [s \in 1..Len(Scenarios) |->
        [c \in Conns |-> \A k \in 1..Len(Scenarios[s].packets[c]) :
                             Sound(Scenarios[s].packets[c][k])]]

\* Per scenario and connection: 0x01, then one ACK per packet with its count.
OneAckEach ==
    [s \in 1..Len(Scenarios) |->
        [c \in Conns |-> <<(<<1>>)>> \o [k \in 1..Len(Decoded[s][c]) |-> Ack(Decoded[s][c][k])]]]

UniqueKeys(table) ==
    \A i, j \in 1..Len(table) :
        (table[i].truckId = table[j].truckId /\ table[i].timestamp = table[j].timestamp)
            => i = j

\* C1: on a connection of a registered device that sends structurally valid
\* packets only, once the stream is delivered and every handler has ended
\* without a repository failure, each record of each packet has its row and
\* the socket was written 0x01 and then exactly one 4-byte ACK per packet,
\* equal to that packet's record count.
C1_OneRowPerRecordOneAck ==
    \A c \in Conns :
        (Registered(DeviceId(c)) /\ AllSound[scn][c] /\ Quiescent(c) /\ repoErrors = 0) =>
            /\ written[c] = OneAckEach[scn][c]
            /\ \A k \in 1..Len(Decoded[scn][c]) :
                   \A r \in 1..Len(Decoded[scn][c][k].records) :
                       HasKey(telemetry, [truckId   |-> findUnique(DeviceId(c)).id,
                                          timestamp |-> Decoded[scn][c][k].records[r].timestamp])

\* C2: on each connection at most one ingestion is in progress at any time,
\* and the packets handed to processTelemetryPacket so far are the first
\* decodable packets of the stream, each once, in the order they arrived.
C2_ArrivalOrderOneAtATime ==
    \A c \in Conns :
        /\ Cardinality({i \in 1..Len(tasks) : tasks[i].conn = c}) <= 1
        /\ Len(handed[c]) <= Len(Decoded[scn][c])
        /\ handed[c] = SubSeq(Decoded[scn][c], 1, Len(handed[c]))

\* C3: after the handshake, bytes leave the buffer only when it holds a
\* whole packet (8 bytes and 8 + dataLength + 4 bytes), and then exactly
\* that packet's 8 + dataLength + 4 bytes leave its head; while it holds
\* less, no step removes a byte or writes to the socket.
C3_SlicesWholePacketsOnly ==
    [][\A c \in Conns : ~expectingIMEI[c] =>
          /\ Len(buffer'[c]) < Len(buffer[c]) =>
                /\ Framed(buffer[c])
                /\ buffer'[c] = SliceFrom(buffer[c], packetLengthOf(buffer[c]))
          /\ ~Framed(buffer[c]) =>
                /\ written'[c] = written[c]
                /\ Len(buffer'[c]) >= Len(buffer[c])]_vars

\* C4: when two connections carry the same stream, one in a single segment
\* and one cut into segments, and both have ended without a repository
\* failure, the buffers written to the two sockets are the same and so are
\* the packets handed to ingestion.
C4_ChunkingInvisible ==
    (/\ Stream(1) = Stream(2) /\ Whole(1) /\ ~Whole(2)
     /\ Quiescent(1) /\ Quiescent(2) /\ repoErrors = 0) =>
        /\ written[1] = written[2]
        /\ handed[1] = handed[2]

\* A step in which the handler suspended as tasks[i] resumes and ends its
\* pass of the loop; it threw if a repository call failed or the device
\* lookup ended the ingestion.
Resumes(i) == tasks' = RemoveAt(tasks, i)
Threw(i)   == repoErrors' # repoErrors \/ tasks[i].pc = "findUnique"

\* A pass of the loop over a decoded packet either writes its ACK or
\* suspends in processTelemetryPacket.
DecodedPassAcksOrSuspends ==
    \A c \in Conns :
        (running = c /\ Framed(buffer[c]) /\ parse(HeadPacket(buffer[c])).ok) =>
            \/ written'[c] = Append(written[c], Ack(parse(HeadPacket(buffer[c]))))
            \/ /\ Len(tasks') = Len(tasks) + 1
               /\ tasks'[Len(tasks')].parsed = parse(HeadPacket(buffer[c]))
               /\ written' = written

\* C5 (as stated): every decoded packet is acknowledged with its record
\* count whatever becomes of its ingestion: a pass over a decoded packet
\* writes the ACK or suspends, and every handler that resumes writes the
\* ACK of its packet.
C5_EveryDecodedPacketAcked ==
    [][/\ DecodedPassAcksOrSuspends
       /\ \A i \in 1..Len(tasks) : Resumes(i) =>
              written'[tasks[i].conn] =
                  Append(written[tasks[i].conn], Ack(tasks[i].parsed))]_vars

\* C5 (amended): a decoded packet is acknowledged with its record count when
\* its ingestion returns (rows stored, rows skipped as duplicates, no
\* record, no identifier); when its ingestion throws (unregistered device,
\* repository failure) nothing is written and no row is stored, and the
\* packet's length leaves the buffer and the loop goes on.
C5_AckedUnlessIngestionThrows ==
    [][/\ DecodedPassAcksOrSuspends
       /\ \A i \in 1..Len(tasks) : Resumes(i) =>
              LET t == tasks[i] IN
              /\ running' = t.conn
              /\ buffer'[t.conn] = SliceFrom(buffer[t.conn], t.packetLength)
              /\ IF Threw(i)
                 THEN written' = written /\ telemetry' = telemetry
                 ELSE written' = [written EXCEPT ![t.conn] = Append(@, Ack(t.parsed))]]_vars

\* C5 witness: of two devices, one's ingestion failed in the repository and
\* its packet got no ACK, the other's two-record packet was stored and
\* acknowledged with 2.
C5_Witness ==
    /\ Quiescent(1) /\ Quiescent(2)
    /\ repoErrors = 1
    /\ written[1] = <<(<<1>>)>>
    /\ written[2] = <<(<<1>>), (<<0, 0, 0, 2>>)>>
    /\ Len(telemetry) = 2

\* C6: when parse throws on the framed packet at the head of the buffer,
\* that step writes nothing, removes exactly the packet's bytes, stores no
\* row, suspends nothing, keeps the session registered and leaves the
\* handler in its loop, at the next buffered packet.
C6_ParseErrorDropsAndGoesOn ==
    [][\A c \in Conns :
          (running = c /\ Framed(buffer[c]) /\ ~parse(HeadPacket(buffer[c])).ok) =>
              /\ written' = written
              /\ buffer' = [buffer EXCEPT ![c] = SliceFrom(@, packetLengthOf(@))]
              /\ telemetry' = telemetry
              /\ tasks' = tasks
              /\ handed' = handed
              /\ sessions' = sessions
              /\ running' = c]_vars

\* C6 witness: a packet with no record was acknowledged, the packet with
\* codec id 7 behind it was dropped without ACK, and the packet behind that
\* was ingested and acknowledged.
C6_Witness ==
    /\ Packets(1) = <<PktNone, PktCodec, PktA>>
    /\ Quiescent(1)
    /\ buffer[1] = <<>>
    /\ written[1] = <<(<<1>>), (<<0, 0, 0, 0>>), (<<0, 0, 0, 1>>)>>
    /\ Len(telemetry) = 1

\* C7: a framed packet whose CRC field differs from the CRC-16 of its data
\* is dropped: the step that meets it at the head of the buffer removes its
\* bytes, writes no ACK, hands nothing to ingestion and stores no row.
C7_BadCrcDropped ==
    [][\A c \in Conns :
          (running = c /\ Framed(buffer[c]) /\ CrcMismatch(HeadPacket(buffer[c]))) =>
              /\ written' = written
              /\ tasks' = tasks
              /\ handed' = handed
              /\ telemetry' = telemetry
              /\ buffer'[c] = SliceFrom(buffer[c], packetLengthOf(buffer[c]))]_vars

\* C8: whenever parse decodes a buffer without throwing, the record count
\* it read in the header equals the record count in the trailer.
C8_RecordCountsAgree ==
    (result # <<>> /\ result[1].ok) => result[1].recordCount = recordCount2Of(input)

\* C9: a row is stored only by an ingestion for a connection whose
\* identifier is registered; a connection with any identifier was answered
\* 0x01 and is in `sessions`; and when the ingestion of an unregistered
\* connection ends, no row is stored, nothing is written, the session stays
\* and the handler goes on with the loop behind the packet.
C9_UnregisteredStoresNothing ==
    [][/\ telemetry' # telemetry =>
              \E i \in 1..Len(tasks) : Resumes(i) /\ Registered(imei[tasks[i].conn])
       /\ \A c \in Conns : imei'[c] # NoImei =>
              /\ written'[c] # <<>> /\ written'[c][1] = <<1>>
              /\ c \in DOMAIN sessions' /\ sessions'[c] = imei'[c]
       /\ \A i \in 1..Len(tasks) : (Resumes(i) /\ ~Registered(imei[tasks[i].conn])) =>
              /\ telemetry' = telemetry
              /\ written' = written
              /\ sessions' = sessions
              /\ running' = tasks[i].conn
              /\ buffer'[tasks[i].conn] =
                     SliceFrom(buffer[tasks[i].conn], tasks[i].packetLength)]_vars

\* C9 witness: an unregistered device was answered 0x01, its packet with a
\* record was handed to ingestion and stored nothing, and the packet behind
\* it was framed, decoded and acknowledged.
C9_Witness ==
    /\ DeviceId(1) = UnregisteredId
    /\ Quiescent(1)
    /\ Len(handed[1]) = 2
    /\ written[1] = <<(<<1>>), (<<0, 0, 0, 0>>)>>
    /\ telemetry = <<>>
    /\ repoErrors = 0

Printable(id) == \A k \in 1..Len(id) : id[k] >= 32 /\ id[k] <= 126

\* The cap on a frame and on the read buffer, 1 MiB by default (spec.md
\* section 5; the source states none).
FrameCap == 2^20

\* C16: while a connection waits for its identifier nothing is written and
\* nothing is consumed: the buffer is what was delivered, and it is short of
\* the 2 + L bytes of the handshake.  Once accepted, the first buffer written
\* is the single byte 0x01, no later one is, the identifier is the one
\* announced (registered or not) and the session is recorded under it.
C16_AcceptedOnceWhenBuffered ==
    \A c \in Conns :
        IF expectingIMEI[c]
        THEN /\ written[c] = <<>>
             /\ buffer[c] = SubSeq(Stream(c), 1, sent[c])
             /\ ~IdentifierBuffered(buffer[c])
             /\ imei[c] = NoImei
        ELSE /\ written[c] # <<>>
             /\ written[c][1] = <<1>>
             /\ \A k \in 2..Len(written[c]) : Len(written[c][k]) = 4
             /\ sent[c] >= 2 + Len(DeviceId(c))
             /\ imei[c] = ToAscii(DeviceId(c))
             /\ sessions[c] = imei[c]

\* C16 witness: the identifier of an unregistered device arrived in two
\* segments; the second completed it and 0x01 was the answer.
C16_Witness ==
    /\ DeviceId(1) = UnregisteredId
    /\ chunks[1] = 2
    /\ sent[1] = 2 + Len(DeviceId(1))
    /\ ~expectingIMEI[1]
    /\ written[1] = <<(<<1>>)>>

\* C17: a connection whose announced identifier is longer than 64 bytes or
\* holds a non-printable byte is never accepted: nothing is written to it,
\* no session is recorded and no packet of it is framed.
C17_BadIdentifierNotAccepted ==
    \A c \in Conns :
        (DeviceId(c) # NoImei /\ (Len(DeviceId(c)) > 64 \/ ~Printable(DeviceId(c)))) =>
            /\ expectingIMEI[c]
            /\ written[c] = <<>>
            /\ c \notin DOMAIN sessions
            /\ handed[c] = <<>>

\* C18: the read buffer never holds more than the cap, and once the header
\* at its head declares a packet longer than the cap nothing more is
\* buffered on that connection.
C18_BufferCapped ==
    [][\A c \in Conns :
          /\ Len(buffer'[c]) <= FrameCap
          /\ (~expectingIMEI[c] /\ Len(buffer[c]) >= 8 /\ packetLengthOf(buffer[c]) > FrameCap)
                 => Len(buffer'[c]) <= Len(buffer[c])]_vars

\* C19: when the ingestion of a packet ends with a repository failure, the
\* handler writes nothing, removes that packet (the bytes at the head of the
\* buffer are the packet it framed), stores no row, keeps the session and
\* goes on with the loop.
C19_RepositoryFailureDropsPacket ==
    [][\A i \in 1..Len(tasks) : (Resumes(i) /\ repoErrors' # repoErrors) =>
          LET t == tasks[i] IN
          /\ written' = written
          /\ telemetry' = telemetry
          /\ sessions' = sessions
          /\ running' = t.conn
          /\ SliceTo(buffer[t.conn], t.packetLength) = t.packet
          /\ buffer'[t.conn] = SliceFrom(buffer[t.conn], t.packetLength)]_vars

\* C20: a Codec8-Extended packet whose records carry the fifth,
\* variable-width IO group is decoded with that group consumed: every record
\* is decoded and the trailer record count is read from the last byte of
\* the data part, where it equals the header count.
C20_FifthGroupConsumed ==
    (result # <<>> /\ input \in {PktExtNX, PktExtNX2}) =>
        /\ result[1].ok
        /\ Len(result[1].records) = result[1].recordCount
        /\ TrailerOffset(input) = 8 + dataLengthOf(input) - 1
        /\ recordCount2Of(input) = result[1].recordCount


(***************************************************************************)
(* The event detector                                                      *)
(***************************************************************************)
\* A call of the detector that has fetched its batch and not yet ended.
InProgress(d) == det[d].pc \in {"createMany", "updateMany"}

\* The ids of a batch.
IdsOf(batch) == {batch[k] : k \in 1..Len(batch)}

\* C11: two calls of detectRoughnessEvents that are in progress together
\* never hold the same TruckTelemetry row in their batches, and no event is
\* stored twice in RoughnessEvent.
C11_ConcurrentRunsDisjoint ==
    /\ \A d1, d2 \in Detectors :
           d1 # d2 /\ InProgress(d1) /\ InProgress(d2)
               => IdsOf(det[d1].processedIds) \cap IdsOf(det[d2].processedIds) = {}
    /\ \A i, j \in 1..Len(events) : i # j => events[i] # events[j]

\* C12: a call of detectRoughnessEvents in which a repository step fails
\* has no persistent effect: with no other call begun, RoughnessEvent holds
\* none of its events and no TruckTelemetry row of its batch is marked
\* processed.
C12_FailedRunLeavesNothing ==
    \A d \in Detectors :
        (det[d].pc = "failed" /\ \A d2 \in Detectors \ {d} : det[d2].pc = "idle")
            => /\ events = <<>>
               /\ \A id \in IdsOf(det[d].processedIds) : ~telemetry[id].processed

\* C13: the samples an event is opened and continued with are samples of
\* one truck: two samples of different trucks that are adjacent in the
\* batch never merge into one event.
C13_EventOfOneTruck ==
    \A d \in Detectors : \A k \in 1..Len(det[d].windows) :
        \A i, j \in 1..Len(det[d].windows[k]) :
            telemetry[det[d].windows[k][i]].truckId
                = telemetry[det[d].windows[k][j]].truckId

\* The order MEDIUM < HIGH < CRITICAL, and the place in it of a sample
\* whose axisZ is z (0: the sample is below every threshold).
RankOf(severity) ==
    CASE severity = "MEDIUM" -> 1 [] severity = "HIGH" -> 2 [] severity = "CRITICAL" -> 3

SampleRank(z) ==
    IF z > 3500 \/ z < -3500 THEN 3
    ELSE IF z > 2500 \/ z < -2500 THEN 2
    ELSE IF z > 2000 \/ z < -2000 THEN 1
    ELSE 0

\* C14: the severity of an event is the greatest severity, in the order
\* MEDIUM < HIGH < CRITICAL, of the samples of its window, in whatever
\* order they come.
C14_SeverityIsMaximum ==
    \A d \in Detectors : \A k \in 1..Len(det[d].events) :
        LET window == det[d].windows[k]
            ranks  == {SampleRank(telemetry[window[i]].axisZ) : i \in 1..Len(window)}
        IN  /\ RankOf(det[d].events[k].severity) \in ranks
            /\ \A r \in ranks : r <= RankOf(det[d].events[k].severity)

\* An event of CRITICAL severity whose window begins with a CRITICAL sample
\* and ends with a MEDIUM one.
C14_Witness ==
    \E d \in Detectors : \E k \in 1..Len(det[d].events) :
        LET window == det[d].windows[k]
        IN  /\ Len(window) >= 2
            /\ SampleRank(telemetry[window[1]].axisZ) = 3
            /\ SampleRank(telemetry[window[Len(window)]].axisZ) = 1
            /\ det[d].events[k].severity = "CRITICAL"


(***************************************************************************)
(* The aggregator                                                          *)
(***************************************************************************)
\* RoadSegmentStats has one row at most for a segment and a date.
OneRowPerSegmentAndDate ==
    \A i, j \in 1..Len(stats) :
        (stats[i].roadSegmentId = stats[j].roadSegmentId /\ stats[i].date = stats[j].date)
            => i = j

\* The call in progress aggregates a day that an earlier call has
\* aggregated to its end.
AggregatesAgain ==
    \E k \in 1..Len(agg.dates) : agg.dates[k] = agg.startOfDay

\* C15: with TruckTelemetry and RoughnessEvent unchanged, calls of
\* aggregateDailyStats for the same day leave one RoadSegmentStats row per
\* (segment, date), and a call after the first changes no field of it.
C15_AggregationIdempotent ==
    /\ []OneRowPerSegmentAndDate
    /\ [][(agg.pc = "upsert" /\ AggregatesAgain) => stats' = stats]_vars

\* A second call for the same day has written its row over the one of the
\* first.
C15_Witness ==
    /\ agg.pc = "idle"
    /\ stats # <<>>
    /\ \E k, l \in 1..Len(agg.dates) : k < l /\ agg.dates[k] = agg.dates[l]


(***************************************************************************)
(* The codec: limits of the decode                                         *)
(***************************************************************************)
\* b is a packet as the framing loop slices it: 8 + dataLength + 4 bytes.
IsFrame(b) == Len(b) >= 8 /\ Len(b) = packetLengthOf(b)

\* Decoding the records b declares and the trailer count, with as many
\* bytes behind b as the decode asks for, reads a byte at or beyond
\* offset 8 + dataLength.
WouldOverrun(b) ==
    \E r \in {ParseRecords(b \o Zeros(64), 10, ReadUInt(b, 8, 1) = 142,
                           ReadUInt(b, 9, 1), <<>>)} :
        ~r.ok \/ r.off >= 8 + dataLengthOf(b)

C22_BadPreambleRejected ==
    (result # <<>> /\ IsFrame(input) /\ ReadUInt(input, 0, 4) # 0) => ~result[1].ok


(***************************************************************************)
(* The mapper                                                              *)
(***************************************************************************)
\* The value of the last element of `io` that carries the id of io[i].
LastValue(io, i) ==
    io[CHOOSE k \in i..Len(io) :
           io[k].id = io[i].id /\ \A l \in (k + 1)..Len(io) : io[l].id # io[i].id].value

\* C23: mapAVLToFields keeps every input id: an id of AVL_ID_MAP is a field
\* of the result under its name, any other id is a key of `unknown`, and
\* the value is the element's value as it was given (of the last element,
\* where several carry the id).
C23_EveryIdKept ==
    result # <<>> =>
        \A i \in 1..Len(input) :
            IF input[i].id \in DOMAIN AVL_ID_MAP
            THEN /\ AVL_ID_MAP[input[i].id] \in DOMAIN result[1]
                 /\ result[1][AVL_ID_MAP[input[i].id]] = LastValue(input, i)
            ELSE /\ "unknown" \in DOMAIN result[1]
                 /\ input[i].id \in DOMAIN result[1]["unknown"]
                 /\ result[1]["unknown"][input[i].id] = LastValue(input, i)

\* A list of a mapped and an unmapped element has been mapped.
C23_Witness ==
    /\ result # <<>>
    /\ Len(input) = 2
    /\ input[1].id \notin DOMAIN AVL_ID_MAP
    /\ input[2].id \in DOMAIN AVL_ID_MAP
    /\ "unknown" \in DOMAIN result[1]


(***************************************************************************)
(* Segment assignment                                                      *)
(***************************************************************************)
\* TruckTelemetry holds the row of record k of the call g, with no segment.
StoredWithoutSegment(g, k) ==
    \E p \in 1..Len(telemetry) :
        /\ telemetry[p].truckId = g.truckId
        /\ telemetry[p].timestamp = g.records[k].timestamp
        /\ telemetry[p].roadSegmentId = NoSegment

\* The call i was waiting for the query, and the query failed.
QueryFailed(i) ==
    ingests[i].pc = "query" /\ ingests'[i].failed # ingests[i].failed

\* C24: when the query of assignRoadSegment fails, the call returns null
\* without throwing and leaves the segment cache as it was: the record loop
\* goes on, and the record is stored with roadSegmentId = null.
C24_QueryFailureStoresWithoutSegment ==
    /\ [][\A i \in Ingests :
             QueryFailed(i) =>
                 /\ segmentCache' = segmentCache
                 /\ ingests'[i].pc \in {"assign", "createMany"}
                 /\ ingests'[i].rows[Len(ingests'[i].rows)].roadSegmentId = NoSegment]_vars
    /\ [](\A i \in Ingests :
             ingests[i].pc = "done"
                 => \A k \in ingests[i].failed : StoredWithoutSegment(ingests[i], k))

\* A call in which a query failed has stored its rows.
C24_Witness ==
    \E i \in Ingests :
        /\ ingests[i].pc = "done"
        /\ ingests[i].failed # {}
        /\ \A k \in ingests[i].failed : StoredWithoutSegment(ingests[i], k)

\* The entry of the cache that was inserted first.
Earliest(cache) ==
    CHOOSE p \in 1..Len(cache) : \A q \in 1..Len(cache) : cache[p].at <= cache[q].at

\* The keys of the cache.
KeysOf(cache) == {cache[p].key : p \in 1..Len(cache)}

\* C25: the segment cache never holds more than CACHE_SIZE_LIMIT entries,
\* also with queries of several calls in flight together; an entry leaves
\* it only when an insertion finds it full, and is then the one inserted
\* first.
C25_CacheBoundedFifo ==
    /\ [](Len(segmentCache) <= CACHE_SIZE_LIMIT)
    /\ [][segmentCache' # segmentCache =>
             \A removed \in {KeysOf(segmentCache) \ KeysOf(segmentCache')} :
                 removed # {}
                     => /\ Len(segmentCache) = CACHE_SIZE_LIMIT
                        /\ removed = {segmentCache[Earliest(segmentCache)].key}]_vars

\* The full cache has lost its first entry to an insertion.
C25_Witness ==
    /\ Len(segmentCache) = CACHE_SIZE_LIMIT
    /\ segmentCache[1].at = 2

\* The id of the segment nearest to the point among those within 50 m of
\* it, or null with none.
NearestSegment(lat) ==
    LET within == {p \in 1..Len(RoadSegment) : DistanceMm(lat, RoadSegment[p]) <= 50 * 1000}
    IN  IF within = {} THEN NoSegment
        ELSE RoadSegment[CHOOSE p \in within :
                             \A q \in within : DistanceMm(lat, RoadSegment[p])
                                                   <= DistanceMm(lat, RoadSegment[q])].id

\* C27: assignRoadSegment returns, for a point with segments within 50 m,
\* the id of the nearest of them, and null exactly when there is none: so
\* is every row built from a record whose query did not fail.
C27_NearestSegmentAssigned ==
    \A i \in Ingests : \A k \in 1..Len(ingests[i].rows) :
        k \notin ingests[i].failed
            => ingests[i].rows[k].roadSegmentId
                   = NearestSegment(ingests[i].records[k].gps.latitude)


(***************************************************************************)
(* The device cache                                                        *)
(***************************************************************************)
\* C26: after any sequence of validateIMEI calls the device cache holds at
\* most DeviceCacheCap entries.
C26_DeviceCacheCapped == Cardinality(DOMAIN deviceCache) <= DeviceCacheCap


(***************************************************************************)
(* The categories of estimateIRI                                           *)
(***************************************************************************)
\* C28: estimateIRI gives the category by bounds that include the lower
\* limit and exclude the upper one, iri being in hundredths: below 2.5 good,
\* from 2.5 and below 4 fair, from 4 and below 6 poor, from 6 very_poor.
C28_LowerLimitInclusive ==
    result # <<>> =>
        result[1].category =
            IF result[1].iri < 10 * THRESHOLDS.IRI_CATEGORIES.GOOD THEN "good"
            ELSE IF result[1].iri < 10 * THRESHOLDS.IRI_CATEGORIES.FAIR THEN "fair"
            ELSE IF result[1].iri < 10 * THRESHOLDS.IRI_CATEGORIES.POOR THEN "poor"
            ELSE "very_poor"


(***************************************************************************)
(* Events and runs of samples                                              *)
(***************************************************************************)
\* The sample at place i of the batch of call d is over the threshold.
OverAt(d, i) ==
    Abs(telemetry[det[d].processedIds[i]].axisZ) > THRESHOLDS.ROUGHNESS.MEDIUM

\* The places of the batch where a maximal run of samples over the
\* threshold begins, the k-th of them, and the place where the run that
\* begins at i ends.
RunStarts(d) ==
    {i \in 1..Len(det[d].processedIds) : OverAt(d, i) /\ (i = 1 \/ ~OverAt(d, i - 1))}

NthRunStart(d, k) ==
    CHOOSE i \in RunStarts(d) : Cardinality({j \in RunStarts(d) : j < i}) = k - 1

RunEnd(d, i) ==
    CHOOSE j \in i..Len(det[d].processedIds) :
        /\ \A l \in i..j : OverAt(d, l)
        /\ j = Len(det[d].processedIds) \/ ~OverAt(d, j + 1)

\* C29: the events of one batch are, in order, the maximal runs of
\* consecutive samples with |axisZ| > 2000: there are as many events as
\* runs, the k-th event has the timestamp of the first sample of the k-th
\* run and was continued with the samples of that run and no other, a run
\* that reaches the end of the batch included.
C29_EventsAreMaximalRuns ==
    \A d \in Detectors :
        /\ Len(det[d].events) = Cardinality(RunStarts(d))
        /\ \A k \in 1..Len(det[d].events) :
               \E first \in {NthRunStart(d, k)} :
                   /\ det[d].events[k].timestamp
                          = telemetry[det[d].processedIds[first]].timestamp
                   /\ det[d].windows[k]
                          = SubSeq(det[d].processedIds, first, RunEnd(d, first))

\* A batch of three samples, the middle one below the threshold, gave two
\* events, the second of them open when the batch ended.
C29_Witness ==
    \E d \in Detectors :
        /\ Len(det[d].processedIds) = 3
        /\ OverAt(d, 1) /\ ~OverAt(d, 2) /\ OverAt(d, 3)
        /\ Len(det[d].events) = 2

\* C30: the durationMs of an event is the timestamp of the last sample of
\* its run less the timestamp of the first, 0 for a run of one sample, and
\* no event, found or stored, has a lastTimestamp field.
C30_DurationIsLastLessFirst ==
    /\ \A d \in Detectors : \A k \in 1..Len(det[d].events) :
           \E first \in {NthRunStart(d, k)} :
               /\ det[d].events[k].durationMs
                      = telemetry[det[d].processedIds[RunEnd(d, first)]].timestamp
                            - telemetry[det[d].processedIds[first]].timestamp
               /\ RunEnd(d, first) = first => det[d].events[k].durationMs = 0
               /\ "lastTimestamp" \notin DOMAIN det[d].events[k]
    /\ \A k \in 1..Len(events) : "lastTimestamp" \notin DOMAIN events[k]

\* An event of three samples at three different times has been found and
\* stored: its durationMs is the sum of two gaps.
C30_Witness ==
    \E d \in Detectors : \E k \in 1..Len(det[d].events) :
        /\ Len(det[d].windows[k]) = 3
        /\ det[d].events[k].durationMs = 2
        /\ \E e \in 1..Len(events) : events[e] = det[d].events[k]


(***************************************************************************)
(* The peaks of an event                                                   *)
(***************************************************************************)
\* The greatest absolute value of the numbers of a non-empty set.
MaxAbs(values) == CHOOSE m \in {Abs(v) : v \in values} : \A v \in values : Abs(v) <= m

\* C31: each of peakXAxis, peakYAxis and peakZAxis of an event is the
\* greatest absolute value of that axis over all the samples of the event's
\* window.
C31_PeaksOverWindow ==
    \A d \in Detectors : \A k \in 1..Len(det[d].events) :
        LET window == det[d].windows[k]
            rows   == {telemetry[window[i]] : i \in 1..Len(window)}
        IN  /\ det[d].events[k].peakXAxis = MaxAbs({r.axisX : r \in rows})
            /\ det[d].events[k].peakYAxis = MaxAbs({r.axisY : r \in rows})
            /\ det[d].events[k].peakZAxis = MaxAbs({r.axisZ : r \in rows})


(***************************************************************************)
(* The processed flag                                                      *)
(***************************************************************************)
\* The events of the calls that have reached updateMany, one pair for each.
EventsBeforeUpdate ==
    {<<d, k>> \in Detectors \X (1..MaxSamples) :
        det[d].pc \in {"updateMany", "done"} /\ k <= Len(det[d].events)}

\* C32: a call reaches its updateMany only with its events inserted in
\* RoughnessEvent; the update sets processed on exactly the rows of the
\* call's batch and leaves every other row as it was; and no step takes
\* processed from true to false.
C32_ProcessedExactlyBatch ==
    /\ [](Len(events) >= Cardinality(EventsBeforeUpdate))
    /\ [][telemetry' # telemetry =>
             /\ \E d \in Detectors :
                    /\ det[d].pc = "updateMany" /\ det'[d].pc = "done"
                    /\ telemetry' =
                           [id \in 1..Len(telemetry) |->
                               IF id \in IdsOf(det[d].processedIds)
                               THEN [telemetry[id] EXCEPT !.processed = TRUE]
                               ELSE telemetry[id]]
             /\ \A id \in 1..Len(telemetry) :
                    telemetry[id].processed => telemetry'[id].processed]_vars

\* A call with an event has ended, its batch is the one row that was not
\* marked before, and both rows are marked now.
C32_Witness ==
    \E d \in Detectors :
        /\ det[d].pc = "done"
        /\ det[d].processedIds = <<2>>
        /\ Len(det[d].events) = 1
        /\ Len(telemetry) = 2
        /\ telemetry[1].processed /\ telemetry[2].processed


(***************************************************************************)
(* The lifetime of a device cache entry                                    *)
(***************************************************************************)
\* C33: a call of validateIMEI whose key has an entry with expiresAt later
\* than now returns that entry's truck with no query and no change of the
\* cache; any other call sends the query, with no entry of the key left in
\* the cache when it does; and a query that finds no truck ends the call
\* with the cache as it was.
C33_RepositoryOnlyOnMissOrExpiry ==
    [][\A i \in Ingests :
           /\ (ingests[i].pc = "validate" /\ ingests'[i].pc # "validate") =>
                  IF /\ ingests[i].imei \in DOMAIN deviceCache
                     /\ deviceCache[ingests[i].imei].expiresAt > now
                  THEN /\ ingests'[i].pc = "assign"
                       /\ ingests'[i].truckId = deviceCache[ingests[i].imei].truck.id
                       /\ deviceCache' = deviceCache
                  ELSE /\ ingests'[i].pc = "findUnique"
                       /\ ingests[i].imei \notin DOMAIN deviceCache'
           /\ (ingests[i].pc = "findUnique" /\ ingests'[i].pc = "threw") =>
                  deviceCache' = deviceCache]_vars

\* The entry of device 1, cached at time 0, has reached its expiresAt and
\* a call for the device has removed it and sent the query.
C33_Witness ==
    \E i \in Ingests :
        /\ ingests[i].pc = "findUnique"
        /\ ingests[i].imei = FleetImei(1)
        /\ ingests[i].calledAt >= TTL_MS
        /\ FleetImei(1) \notin DOMAIN deviceCache


(***************************************************************************)
(* The passes of a segment                                                 *)
(***************************************************************************)
\* The TruckTelemetry rows of a segment in the day that begins at `date`.
PassesOf(segmentId, date) ==
    {i \in 1..Len(telemetry) :
        /\ telemetry[i].roadSegmentId = segmentId
        /\ telemetry[i].timestamp >= date
        /\ telemetry[i].timestamp < date + DayMs}

\* C34: a RoadSegmentStats row has for totalPasses the number n > 0 of the
\* TruckTelemetry rows of its segment in its day and for loadedPasses the
\* number of those with isLoaded; and a write to RoadSegmentStats is for a
\* segment with n > 0 in the day of the call and leaves the rows of every
\* other (segment, date) as they were.
C34_PassesCounted ==
    /\ [](\A k \in 1..Len(stats) :
              /\ stats[k].totalPasses = Cardinality(PassesOf(stats[k].roadSegmentId,
                                                             stats[k].date))
              /\ stats[k].totalPasses > 0
              /\ stats[k].loadedPasses
                     = Cardinality({i \in PassesOf(stats[k].roadSegmentId, stats[k].date) :
                                       telemetry[i].isLoaded}))
    /\ [][stats' # stats =>
             /\ PassesOf(agg.todo[1], agg.startOfDay) # {}
             /\ \A k \in 1..Len(stats) :
                    (stats[k].roadSegmentId # agg.todo[1] \/ stats[k].date # agg.startOfDay)
                        => stats'[k] = stats[k]]_vars

\* A call has returned that wrote a row of three passes, one of them
\* loaded, for segment 1 and no row for segment 2, which had no pass.
C34_Witness ==
    /\ agg.pc = "idle" /\ agg.dates # <<>>
    /\ PassesOf(2, 0) = {}
    /\ \E k \in 1..Len(stats) :
           /\ stats[k].roadSegmentId = 1 /\ stats[k].date = 0
           /\ stats[k].totalPasses = 3 /\ stats[k].loadedPasses = 1
    /\ \A k \in 1..Len(stats) : stats[k].roadSegmentId # 2


(***************************************************************************)
(* 'data' events while a handler is suspended                              *)
(***************************************************************************)
\* The 4-byte ACKs among the buffers written to the socket of c.
AcksWritten(c) == {k \in 1..Len(written[c]) : Len(written[c][k]) = 4}

\* C35: every complete packet of a connection's stream is passed to
\* processTelemetryPacket once and acknowledged at most once: never are
\* more packets handed to it, or more ACKs written, than the stream holds
\* decodable packets, and when the stream is delivered and every handler
\* has ended the packets handed are the packets of the stream, each once.
C35_EachPacketHandedOnce ==
    \A c \in Conns :
        /\ Len(handed[c]) <= Len(Decoded[scn][c])
        /\ Cardinality(AcksWritten(c)) <= Len(Decoded[scn][c])
        /\ (Quiescent(c) /\ imei[c] \notin {NoImei, <<>>}) => handed[c] = Decoded[scn][c]


\* The offsets of the stream of c at which a packet begins or the last one
\* ends: the handshake and the first k packets.
Boundaries(c) ==
    {Len(Handshake(DeviceId(c))) + Len(Concat(SubSeq(Packets(c), 1, k))) :
        k \in 0..Len(Packets(c))}

\* C36: after the handshake the head of the read buffer is at a packet
\* boundary of the stream received: the bytes received less the bytes
\* buffered end at the handshake or at the end of a packet.
C36_HeadAtPacketBoundary ==
    \A c \in Conns :
        (~expectingIMEI[c] /\ DeviceId(c) # NoImei)
            => (sent[c] - Len(buffer[c])) \in Boundaries(c)


\* C37: the ACK of a packet with at least one record is written only by a
\* handler that resumes from processTelemetryPacket, called for that packet
\* with the identifier of the connection, and that did not throw.
C37_AckOnlyAfterIngestion ==
    [][\A c \in Conns :
           (/\ Len(written'[c]) = Len(written[c]) + 1
            /\ Len(written'[c][Len(written'[c])]) = 4
            /\ written'[c][Len(written'[c])] # <<0, 0, 0, 0>>)
               => \E i \in 1..Len(tasks) :
                      /\ tasks[i].conn = c
                      /\ tasks[i].imei = imei[c]
                      /\ Resumes(i) /\ ~Threw(i)
                      /\ Ack(tasks[i].parsed) = written'[c][Len(written'[c])]]_vars


(***************************************************************************)
(* Aggregation while events are inserted                                   *)
(***************************************************************************)
\* C38: in every RoadSegmentStats row the critical events are no more than
\* the events and the loaded passes no more than the passes.
C38_CountsOrdered ==
    \A k \in 1..Len(stats) :
        /\ stats[k].criticalEventCount <= stats[k].roughnessEventCount
        /\ stats[k].loadedPasses <= stats[k].totalPasses


(***************************************************************************)
(* The category and the rounded iri                                        *)
(***************************************************************************)
\* C39: the category estimateIRI returns goes with the iri it returns: a
\* call for any other arguments that returns the same iri returns the same
\* category.
C39_CategoryOfReturnedIri ==
    result # <<>> =>
        \A a \in IriArguments :
            \A r \in {estimateIRI(a.zAxisValues, a.speedKmh, 1)} :
                r.iri = result[1].iri => r.category = result[1].category


(***************************************************************************)
(* The backlog is worked off                                               *)
(***************************************************************************)
\* The rows that have been marked.
Marked == {id \in 1..Len(telemetry) : telemetry[id].processed}

\* C40: with no new telemetry and no repository failure, calls of
\* detectRoughnessEvents made one after the other take each at most 1000
\* rows, in ascending order of timestamp; no row is in the batch of two
\* calls and every marked row is in the batch of one; and in the end every
\* row is marked.
C40_BacklogWorkedOff ==
    /\ [](/\ \A d \in Detectors :
                /\ Len(det[d].processedIds) <= BATCH_SIZES.EVENT_PROCESSING
                /\ \A k \in 1..(Len(det[d].processedIds) - 1) :
                       telemetry[det[d].processedIds[k]].timestamp
                           <= telemetry[det[d].processedIds[k + 1]].timestamp
          /\ \A d1, d2 \in Detectors :
                d1 # d2 => IdsOf(det[d1].processedIds) \cap IdsOf(det[d2].processedIds) = {}
          /\ Marked \subseteq UNION {IdsOf(det[d].processedIds) : d \in Detectors})
    /\ <>(Marked = 1..Len(telemetry))

\* A backlog of 1001 rows has been worked off by a call that took 1000
\* rows and a call that took the one left.
C40_Witness ==
    /\ Len(telemetry) = BATCH_SIZES.EVENT_PROCESSING + 1
    /\ Marked = 1..Len(telemetry)
    /\ Len(det[1].processedIds) = BATCH_SIZES.EVENT_PROCESSING
    /\ det[2].processedIds = <<BATCH_SIZES.EVENT_PROCESSING + 1>>

=============================================================================
